---- MODULE Spec2Model ----
(***************************************************************************)
(* Dual-channel payment status reconciliation of the crypto exchange bot:  *)
(* the NOWPayments IPN webhook (webhookService.handleWebhook ->            *)
(* ipnService.processIPN), the polling deposit checker                     *)
(* (DepositChecker.checkDeposits / checkTransaction) and the admin         *)
(* mark-processing action, all writing the same transaction rows.          *)
(*                                                                         *)
(* Every await of the source is a step boundary: the code between two      *)
(* awaits runs atomically on the Node.js event loop and is one action.     *)
(***************************************************************************)
EXTENDS Integers, Sequences, FiniteSets, TLC

\* ---------------------------------------------------------------- bounds
MaxWebhooks == 1      \* webhook requests of the reconciliation specification
MaxTicks == 1         \* cron/startup triggers of checkDeposits
MaxAdminOps == 1      \* admin mark-processing callbacks
MaxDeliveries == 2    \* webhook requests of the redelivery and ordering specifications
MaxRequests == 1      \* webhook requests of the ingestion specification
MaxRequired == 4      \* largest requiredConfirmations a transaction is created with
MaxReported == 4      \* largest confirmation count a blockchain lookup reports
MaxTriggers == 2      \* cron/startup triggers of the re-entrancy specification
MaxDecisions == 3     \* admin callbacks and API calls of the administration specification
MaxMessages == 2      \* largest config.rateLimit.maxMessages
MaxUpdates == 4       \* Telegram updates of the rate-limit specification
MaxTime == 3          \* the clock of the rate-limit specification runs from 0 to MaxTime

\* ------------------------------------------------------- program values
\* TransactionStatus (transactionService.ts)
PENDING == "PENDING"
PROCESSING == "PROCESSING"
CONFIRMING == "CONFIRMING"
CONFIRMED == "CONFIRMED"
COMPLETED == "COMPLETED"
CANCELLED == "CANCELLED"
FAILED == "FAILED"
REFUNDED == "REFUNDED"

TransactionStatus ==
  {PENDING, PROCESSING, CONFIRMING, CONFIRMED, COMPLETED, CANCELLED, FAILED, REFUNDED}

\* the gateway statuses NOWPayments documents (IPNPaymentStatus)
IPNPaymentStatus ==
  {"waiting", "confirming", "confirmed", "sending", "partially_paid",
   "finished", "failed", "refunded", "expired"}

\* a raw status outside the documented vocabulary
UnknownRaw == "bogus"

\* a webhook table that takes an expired payment for a failed one
STATUS_MAP_ExpiredFailed(raw) ==
  CASE raw = "waiting" -> PENDING
    [] raw = "confirming" -> CONFIRMING
    [] raw = "confirmed" -> CONFIRMED
    [] raw = "sending" -> PROCESSING
    [] raw = "partially_paid" -> CONFIRMING
    [] raw = "finished" -> COMPLETED
    [] raw = "failed" -> FAILED
    [] raw = "refunded" -> REFUNDED
    [] raw = "expired" -> FAILED
    [] OTHER -> ""

\* STATUS_MAP of ipnService.ts; "" stands for undefined (no entry)
STATUS_MAP(raw) ==
  CASE raw = "waiting" -> PENDING
    [] raw = "confirming" -> CONFIRMING
    [] raw = "confirmed" -> CONFIRMED
    [] raw = "sending" -> PROCESSING
    [] raw = "partially_paid" -> CONFIRMING
    [] raw = "finished" -> COMPLETED
    [] raw = "failed" -> FAILED
    [] raw = "refunded" -> REFUNDED
    [] raw = "expired" -> CANCELLED
    [] OTHER -> ""

\* statusMap looked up without regard to the case of the gateway's answer
statusMapAnyCase(raw) ==
  CASE raw = "waiting" -> PENDING
    [] raw = "confirming" -> CONFIRMING
    [] raw = "confirmed" -> CONFIRMED
    [] raw = "sending" -> PROCESSING
    [] raw = "partially_paid" -> CONFIRMING
    [] raw \in {"finished", "FINISHED"} -> COMPLETED
    [] raw = "failed" -> FAILED
    [] raw = "refunded" -> REFUNDED
    [] raw = "expired" -> CANCELLED
    [] OTHER -> ""

\* statusMap of DepositChecker.checkTransaction (a second, local table)
statusMap(raw) ==
  CASE raw = "waiting" -> PENDING
    [] raw = "confirming" -> CONFIRMING
    [] raw = "confirmed" -> CONFIRMED
    [] raw = "sending" -> PROCESSING
    [] raw = "partially_paid" -> CONFIRMING
    [] raw = "finished" -> COMPLETED
    [] raw = "failed" -> FAILED
    [] raw = "refunded" -> REFUNDED
    [] raw = "expired" -> CANCELLED
    [] OTHER -> ""

Max(a, b) == IF a >= b THEN a ELSE b

\* the heuristic without its lower bound of one confirmation
HalfConfirmationsFloor(required) == required \div 2

\* Math.max(1, Math.floor(requiredConfirmations / 2))
HalfConfirmations(required) == Max(1, required \div 2)

\* ------------------------------------------------------------ signatures
\* A hex digest is modelled by what determines it: its length, the key and
\* the message it was computed over (HMAC-SHA256 taken as collision free).
DigestLen == 64

\* createMessageString: the signed fields joined in order; actually_paid
\* is not among them.
createMessageString(payload) ==
  <<payload.payment_id, payload.payment_status, payload.order_id>>

\* crypto.createHmac('sha256', key).update(message).digest('hex')
HmacDigest(key, message) == [len |-> DigestLen, key |-> key, msg |-> message]

\* the x-nowpayments-sig header when absent or empty
NoSignature == [len |-> 0, key |-> "", msg |-> <<>>]

\* JavaScript truthiness of the header value
Truthy(signature) == signature.len > 0

\* verifySignature refusing every signature while no secret is configured
verifySignatureFailClosed(secret, payload, signature) ==
  IF secret = "" THEN FALSE
  ELSE LET digest == HmacDigest(secret, createMessageString(payload))
       IN IF signature.len # digest.len THEN FALSE
          ELSE signature = digest

\* verifySignature comparing the digests without the length check that
\* timingSafeEqual enforces (a cut digest of the right key and message passes)
verifySignatureAnyLength(secret, payload, signature) ==
  IF secret = "" THEN TRUE
  ELSE LET digest == HmacDigest(secret, createMessageString(payload))
       IN signature.key = digest.key /\ signature.msg = digest.msg

\* verifySignature: no secret -> true; timingSafeEqual throws on buffers of
\* different length and the catch returns false.
verifySignature(secret, payload, signature) ==
  IF secret = "" THEN TRUE
  ELSE LET digest == HmacDigest(secret, createMessageString(payload))
       IN IF signature.len # digest.len THEN FALSE
          ELSE signature = digest

\* ----------------------------------------------------------------- state
VARIABLES
  tx,        \* the transactions table: id -> row
  cfg,       \* config.ipn: [secret, enabled]
  wh,        \* webhook requests: slot -> locals of handleWebhook/processIPN
  poll,      \* the DepositChecker: isRunning and the locals of the running tick
  sent,      \* notifications handed to sendToUser/sendToAdmin: id -> kind -> count
  adminOps,  \* admin mark-processing callbacks handled so far
  delivered, \* history: watched occurrence (raw status, "fault") -> how often so far
  app        \* the process: whether stop ran, the clock, config.rateLimit, the
             \* rate-limit store, and (history) every user's updates and their outcome

vars == <<tx, cfg, wh, poll, sent, adminOps, delivered, app>>

\* default requiredConfirmations of TransactionService.create
DefaultRequiredConfirmations == 3

\* the price of one coin in USD that create() fetched
PriceUsd == 100

\* config.crypto.exchangeFeePercent (1.5 per cent), in thousandths
ExchangeFeePerMille == 15

\* cryptoService.calculateExchange, in whole dollars
calculateExchange(cryptoAmount, priceUsd) ==
  LET grossUsd == cryptoAmount * priceUsd
      feeUsd == (grossUsd * ExchangeFeePerMille) \div 1000
  IN [grossUsd |-> grossUsd, feeUsd |-> feeUsd, netUsd |-> grossUsd - feeUsd]

\* a row as TransactionService.create leaves it (status PENDING, no
\* confirmations, completedAt null = 0); updatedAt is a logical timestamp
\* that every update advances (Prisma @updatedAt)
NewTx(id, paymentId, amount) ==
  LET exchange == calculateExchange(amount, PriceUsd) IN
  [id |-> id, status |-> PENDING, confirmations |-> 0,
   requiredConfirmations |-> DefaultRequiredConfirmations,
   amount |-> amount, paymentId |-> paymentId,
   completedAt |-> 0, updatedAt |-> 1,
   userId |-> "u1", amountUsd |-> exchange.grossUsd,
   feeAmount |-> exchange.feeUsd, netAmount |-> exchange.netUsd,
   bankName |-> "bank", accountNumber |-> "acct", accountName |-> "name"]

\* null for a transaction (findUnique found nothing / not read yet)
NoTx == [id |-> ""]

\* a request body that was not (or could not be) parsed
NoBody == [payment_id |-> "", payment_status |-> "", order_id |-> "", actually_paid |-> 0]

NoEvent == [raw |-> "", paid |-> 0]

NotificationKinds ==
  {"confirming", "confirmed", "payout", "failed", "refunded", "paid", "cancelled"}

IdleRequest ==
  [pc |-> "idle", method |-> "", body |-> NoBody, sig |-> NoSignature,
   tx |-> NoTx, ok |-> FALSE, resp |-> 0, log |-> "", wrote |-> FALSE, notes |-> 0]

\* the process after start(): the stop handler has not run, the rate-limit
\* store is empty (maxMessages at its default), no update has arrived, the
\* session store is empty and no handler call is in flight (steps counts the
\* updates handed to the sell handlers, passes the times a session was set to
\* CONFIRMING_SALE), no admin request has arrived (caller is the Telegram id
\* of the sender, from the id the code reads), connectWithRetry has not been
\* called (connects counts the calls of $connect, waits lists the delays)
IdleApp ==
  [stopped |-> FALSE, now |-> 0, maxMessages |-> 5, rateLimitStore |-> <<>>, log |-> <<>>,
   sessions |-> <<>>, calls |-> <<>>, steps |-> 0, passes |-> 0,
   request |-> [via |-> "", caller |-> "", from |-> ""],
   db |-> [pc |-> "idle", attempt |-> 0, connects |-> 0, waits |-> <<>>,
           maxRetries |-> 10, retryDelayMs |-> 2000]]

IdlePoll ==
  [isRunning |-> FALSE, pc |-> "idle", queue |-> <<>>, payment |-> NoEvent,
   ticks |-> 0, wrote |-> FALSE, notes |-> 0]

\* prisma.transaction.update({where: {id}, data}): the fields of data
\* replace the row's, every other field is kept, updatedAt advances
PrismaUpdate(row, data) ==
  [f \in DOMAIN row |->
     IF f = "updatedAt" THEN row.updatedAt + 1
     ELSE IF f \in DOMAIN data THEN data[f] ELSE row[f]]

\* merge of two update objects ({...a, ...b}: b wins)
Merge(a, b) == [f \in DOMAIN a \cup DOMAIN b |-> IF f \in DOMAIN b THEN b[f] ELSE a[f]]

\* updateData that revalues the transaction when the amount paid is stored
IPNUpdateDataRevalued(payload, transaction) ==
  LET base == [status |-> STATUS_MAP(payload.payment_status)]
      amt == IF payload.actually_paid > 0
               THEN [amount |-> payload.actually_paid,
                     amountUsd |-> payload.actually_paid * PriceUsd]
             ELSE <<>>
      conf == IF payload.payment_status = "confirmed"
                THEN [confirmations |-> transaction.requiredConfirmations]
              ELSE IF payload.payment_status = "confirming"
                THEN [confirmations |-> HalfConfirmations(transaction.requiredConfirmations)]
              ELSE <<>>
  IN Merge(Merge(base, amt), conf)

\* updateData built by processIPN (lines 161-176)
IPNUpdateData(payload, transaction) ==
  LET base == [status |-> STATUS_MAP(payload.payment_status)]
      amt == IF payload.actually_paid > 0
               THEN [amount |-> payload.actually_paid] ELSE <<>>
      conf == IF payload.payment_status = "confirmed"
                THEN [confirmations |-> transaction.requiredConfirmations]
              ELSE IF payload.payment_status = "confirming"
                THEN [confirmations |-> HalfConfirmations(transaction.requiredConfirmations)]
              ELSE <<>>
  IN Merge(Merge(base, amt), conf)

\* TransactionService.updateStatus: {status, ...additionalData}, completedAt
\* = new Date() when the status is COMPLETED, then prisma update
updateStatus(row, status, additionalData) ==
  LET d == Merge([status |-> status], additionalData)
      data == IF status = COMPLETED
                THEN Merge(d, [completedAt |-> row.updatedAt + 1]) ELSE d
  IN PrismaUpdate(row, data)

\* handleStatusNotification telling only the user of a confirmed deposit
handleStatusNotificationUserOnly(status) ==
  CASE status = CONFIRMING -> <<"confirming">>
    [] status = CONFIRMED -> <<"confirmed">>
    [] status \in {FAILED, CANCELLED} -> <<"failed">>
    [] status = REFUNDED -> <<"refunded">>
    [] OTHER -> <<>>

\* the messages handleStatusNotification sends for a status, in order
handleStatusNotification(status) ==
  CASE status = CONFIRMING -> <<"confirming">>
    [] status = CONFIRMED -> <<"confirmed", "payout">>
    [] status \in {FAILED, CANCELLED} -> <<"failed">>
    [] status = REFUNDED -> <<"refunded">>
    [] OTHER -> <<>>

\* notificationService.sendToUser / sendToAdmin called once for row id
Send(s, id, kind) == [s EXCEPT ![id][kind] = @ + 1]

\* a send whose failure is not caught inside sendToUser: the rejection throws
\* out of the caller's step
AfterSendThrows(r, ok) ==
  IF ok THEN [r EXCEPT !.notes = @ + 1] ELSE [r EXCEPT !.pc = "thrown"]

\* the caller after `await sendToUser/sendToAdmin`: the result (false when the
\* bot is not initialised or sendMessage threw, caught inside) is not looked at
AfterSend(r, ok) == [r EXCEPT !.notes = @ + 1]

\* ------------------------------------------------- the webhook ingestion
\* an earlier notification of the same payment, whose signature a sender
\* may have captured
EarlierOf(b) == [b EXCEPT !.payment_status = "waiting"]

\* the x-nowpayments-sig values a sender can attach to body b: none, the
\* digest under any key of Keys of b or of the earlier notification, or a
\* digest of b cut short
SignatureHeaders(b, Keys) ==
  {NoSignature}
    \cup {HmacDigest(k, createMessageString(o)) : k \in Keys, o \in {b, EarlierOf(b)}}
    \cup {[len |-> DigestLen \div 2, key |-> k, msg |-> createMessageString(b)] : k \in Keys}

SetReq(i, r) == wh' = [wh EXCEPT ![i] = r]

\* one more watched occurrence: an event of a raw status handed to a channel,
\* a "fault" (a store, gateway or parse failure), or a notification that
\* was "undelivered"
Record(d, raw) == [r \in DOMAIN d |-> IF r = raw THEN d[r] + 1 ELSE d[r]]

\* handleWebhook returning without a call of sendResponse
FinishedSilently(r, code, line) == [IdleRequest EXCEPT !.pc = "done", !.log = line]

\* sendResponse + return of handleWebhook: the request's locals are gone,
\* the status code and the log line of the path taken remain
Finished(r, code, line) ==
  [IdleRequest EXCEPT !.pc = "done", !.resp = code, !.log = line]

\* processIPN returned ok (true/false; its catch turns a throw into false):
\* control is back in handleWebhook, which answers next
Returned(r, ok, line) == [r EXCEPT !.pc = "respond", !.ok = ok, !.log = line]

\* handleWebhook refusing a failed processIPN with 403
ResponseStatusForbidden(success) == IF success THEN 200 ELSE 403

\* handleWebhook asking for redelivery of a failed processIPN with 500
ResponseStatusRetry(success) == IF success THEN 200 ELSE 500

\* the status code handleWebhook answers for the result of processIPN
ResponseStatus(success) == IF success THEN 200 ELSE 200

\* the server accepts a connection (not after webhookServer.close()), then
\* handleWebhook up to `await this.parseBody(req)`: the enabled and method checks
Receive(i, Methods) ==
  /\ ~app.stopped
  /\ wh[i].pc = "idle"
  /\ IF i = 1 THEN TRUE ELSE wh[i - 1].pc # "idle"
  /\ \E m \in Methods :
       LET r == [wh[i] EXCEPT !.method = m] IN
       IF ~cfg.enabled
         THEN SetReq(i, Finished(r, 403, "IPN disabled"))
       ELSE IF m # "POST"
         THEN SetReq(i, Finished(r, 405, "Method not allowed"))
       ELSE SetReq(i, [r EXCEPT !.pc = "parse"])
  /\ UNCHANGED <<tx, cfg, poll, sent, adminOps, delivered, app>>

\* parseBody settles; on success handleWebhook reads the signature header and
\* processIPN runs up to `await transactionService.getById`
ParseBody(i, Bodies, Keys) ==
  /\ wh[i].pc = "parse"
  /\ \/ \* JSON.parse throws: the catch of handleWebhook answers 500
        /\ SetReq(i, Finished(wh[i], 500, "Error handling webhook"))
        /\ delivered' = Record(delivered, "fault")
     \/ \E b \in Bodies : \E sg \in SignatureHeaders(b, Keys) :
          LET r == [wh[i] EXCEPT !.body = b, !.sig = sg] IN
          /\ delivered' = Record(delivered, b.payment_status)
          /\ IF Truthy(sg) /\ ~verifySignature(cfg.secret, b, sg)
               THEN SetReq(i, Returned(r, FALSE, "Invalid IPN signature received"))
             ELSE IF b.order_id = ""
               THEN SetReq(i, Returned(r, FALSE, "IPN received without order_id"))
             ELSE SetReq(i, [r EXCEPT !.pc = "read"])
  /\ UNCHANGED <<tx, cfg, poll, sent, adminOps, app>>

\* getById settles; then the status is mapped and updateData is built, up to
\* `await transactionService.updateStatus`
GetById(i) ==
  /\ wh[i].pc = "read"
  /\ \/ \* the store read throws: caught by processIPN
        /\ SetReq(i, Returned(wh[i], FALSE, "Error processing IPN"))
        /\ delivered' = Record(delivered, "fault")
     \/ /\ LET id == wh[i].body.order_id IN
           IF id \notin DOMAIN tx
             THEN SetReq(i, Returned(wh[i], FALSE, "Transaction not found"))
           ELSE IF STATUS_MAP(wh[i].body.payment_status) = ""
             THEN SetReq(i, Returned([wh[i] EXCEPT !.tx = tx[id]], FALSE, "Unknown IPN status"))
           ELSE SetReq(i, [wh[i] EXCEPT !.pc = "write", !.tx = tx[id]])
        /\ UNCHANGED delivered
  /\ UNCHANGED <<tx, cfg, poll, sent, adminOps, app>>

\* the event a payload or a gateway answer carries
EventOf(raw, paid) == [raw |-> raw, paid |-> paid]

\* processIPN swallowing the failure of the write and notifying all the same
UpdateStatusOrNot(i) ==
  /\ wh[i].pc = "write"
  /\ LET id == wh[i].body.order_id
         newStatus == STATUS_MAP(wh[i].body.payment_status)
     IN \/ /\ SetReq(i, [wh[i] EXCEPT !.pc = "notify"])
           /\ delivered' = Record(delivered, "fault")
           /\ UNCHANGED tx
        \/ /\ tx' = [tx EXCEPT ![id] =
                       updateStatus(@, newStatus, IPNUpdateData(wh[i].body, wh[i].tx))]
           /\ SetReq(i, [wh[i] EXCEPT !.pc = "notify", !.wrote = TRUE])
           /\ UNCHANGED delivered
  /\ UNCHANGED <<cfg, poll, sent, adminOps, app>>

\* updateStatus settles: the row is written whatever it holds by now
UpdateStatus(i) ==
  /\ wh[i].pc = "write"
  /\ LET id == wh[i].body.order_id
         newStatus == STATUS_MAP(wh[i].body.payment_status)
     IN \/ \* the store write throws: caught by processIPN
           /\ SetReq(i, Returned(wh[i], FALSE, "Error processing IPN"))
           /\ delivered' = Record(delivered, "fault")
           /\ UNCHANGED tx
        \/ /\ tx' = [tx EXCEPT ![id] =
                       updateStatus(@, newStatus, IPNUpdateData(wh[i].body, wh[i].tx))]
           /\ SetReq(i, [wh[i] EXCEPT !.pc = "notify", !.wrote = TRUE])
           /\ UNCHANGED delivered
  /\ UNCHANGED <<cfg, poll, sent, adminOps, app>>

\* handleStatusNotification: one await per message; then processIPN returns true
Notify(i) ==
  /\ wh[i].pc = "notify"
  /\ LET id == wh[i].body.order_id
         msgs == handleStatusNotification(STATUS_MAP(wh[i].body.payment_status))
     IN IF wh[i].notes < Len(msgs)
          THEN /\ sent' = Send(sent, id, msgs[wh[i].notes + 1])
               /\ \E ok \in BOOLEAN :
                    /\ SetReq(i, AfterSend(wh[i], ok))
                    /\ delivered' = IF ok THEN delivered
                                    ELSE Record(delivered, "undelivered")
          ELSE /\ SetReq(i, Returned(wh[i], TRUE, "updated via IPN"))
               /\ UNCHANGED <<sent, delivered>>
  /\ UNCHANGED <<tx, cfg, poll, adminOps, app>>

\* handleWebhook after `await ipnService.processIPN`: 200 for true and for false
Respond(i) ==
  /\ wh[i].pc = "respond"
  /\ SetReq(i, Finished(wh[i], ResponseStatus(wh[i].ok), wh[i].log))
  /\ UNCHANGED <<tx, cfg, poll, sent, adminOps, delivered, app>>

\* ------------------------------------------------------ the polling loop
\* findMany selecting by status alone, with or without a paymentId
SelectedByStatus(row) == row.status \in {PENDING, CONFIRMING}

\* the where clause of findMany in checkDeposits
Selected(row) == row.status \in {PENDING, CONFIRMING} /\ row.paymentId # ""

\* every order findMany may return the selected rows in (no orderBy)
Orderings(S) ==
  {q \in UNION {[1..n -> S] : n \in {Cardinality(S)}} :
     \A a, b \in 1..Cardinality(S) : a # b => q[a] # q[b]}

\* updateData built by checkTransaction (lines 98-112)
PollUpdateData(payment, row) ==
  LET base == [status |-> statusMap(payment.raw)]
      amt == IF payment.paid > 0 THEN [amount |-> payment.paid] ELSE <<>>
      conf == IF payment.raw = "confirmed"
                THEN [confirmations |-> row.requiredConfirmations]
              ELSE IF payment.raw = "confirming"
                THEN [confirmations |-> HalfConfirmations(row.requiredConfirmations)]
              ELSE <<>>
  IN Merge(Merge(base, amt), conf)

\* checkTransaction telling only the user of a confirmed deposit
PollNotificationsUserOnly(newStatus, oldStatus) ==
  IF newStatus = CONFIRMED THEN <<"confirmed">>
  ELSE IF newStatus = CONFIRMING /\ oldStatus = PENDING THEN <<"confirming">>
  ELSE <<>>

\* the messages checkTransaction sends after its write (lines 119-152)
PollNotifications(newStatus, oldStatus) ==
  IF newStatus = CONFIRMED THEN <<"confirmed", "payout">>
  ELSE IF newStatus = CONFIRMING /\ oldStatus = PENDING THEN <<"confirming">>
  ELSE <<>>

\* a loop without the try/catch around checkTransaction: whatever ends the
\* work on a row ends the tick
NextRowEndsTick(p) == [IdlePoll EXCEPT !.ticks = p.ticks]

\* checkDeposits without its finally: the flag stays set when the loop ends
NextRowNoFinally(p) ==
  IF Len(p.queue) > 1
    THEN [p EXCEPT !.pc = "fetch", !.queue = Tail(@), !.payment = NoEvent,
                   !.wrote = FALSE, !.notes = 0]
    ELSE [IdlePoll EXCEPT !.ticks = p.ticks, !.isRunning = TRUE]

\* checkTransaction returned (or threw into the loop's catch): next row, or
\* the finally of checkDeposits when the list is exhausted
NextRow(p) ==
  IF Len(p.queue) > 1
    THEN [p EXCEPT !.pc = "fetch", !.queue = Tail(@), !.payment = NoEvent,
                   !.wrote = FALSE, !.notes = 0]
    ELSE [IdlePoll EXCEPT !.ticks = p.ticks]

\* checkDeposits entered without looking at isRunning: a second execution
\* starts over the one in flight
EnterUnguarded(p) == [p EXCEPT !.isRunning = TRUE, !.pc = "find"]

\* checkDeposits up to `await prisma.transaction.findMany`: the isRunning
\* guard returns at once, else the flag is set and the query is issued
Enter(p) == IF p.isRunning THEN p ELSE [p EXCEPT !.isRunning = TRUE, !.pc = "find"]

\* cron or the startup timer calls checkDeposits, at most limit times
checkDepositsUpTo(limit) ==
  /\ poll.ticks < limit
  /\ poll' = [Enter(poll) EXCEPT !.ticks = @ + 1]
  /\ UNCHANGED <<tx, cfg, wh, sent, adminOps, delivered, app>>

checkDeposits == checkDepositsUpTo(MaxTicks)

\* findMany settles: the rows selected now are what the tick works on
FindMany ==
  /\ poll.pc = "find"
  /\ \/ \* the query throws: outer catch, finally
        /\ poll' = [IdlePoll EXCEPT !.ticks = poll.ticks]
        /\ delivered' = Record(delivered, "fault")
     \/ /\ LET rows == {tx[id] : id \in {d \in DOMAIN tx : Selected(tx[d])}} IN
           IF rows = {}
             THEN poll' = [IdlePoll EXCEPT !.ticks = poll.ticks]
             ELSE \E q \in Orderings(rows) : poll' = [poll EXCEPT !.pc = "fetch", !.queue = q]
        /\ UNCHANGED delivered
  /\ UNCHANGED <<tx, cfg, wh, sent, adminOps, app>>

\* checkTransaction writing whatever the gateway answers
StatusChangedAlways(newStatus, row) == TRUE

\* `newStatus !== tx.status`, tx being the row as the tick listed it
StatusChanged(newStatus, row) == newStatus # row.status

\* checkTransaction: a row without paymentId is skipped; else getPaymentStatus
\* settles (null on any error), the answer is mapped and compared with the
\* status the tick read
GetPaymentStatus(Reports) ==
  /\ poll.pc = "fetch"
  /\ IF Head(poll.queue).paymentId = ""
       THEN \* no paymentId: skipped without a request
            poll' = NextRow(poll) /\ UNCHANGED delivered
       ELSE \/ \* the request failed: getPaymentStatus returns null
               /\ poll' = NextRow(poll)
               /\ delivered' = Record(delivered, "fault")
            \/ \E payment \in Reports :
                 /\ delivered' = Record(delivered, payment.raw)
                 /\ IF statusMap(payment.raw) = ""
                      THEN poll' = NextRow(poll)
                    ELSE IF StatusChanged(statusMap(payment.raw), Head(poll.queue))
                      THEN poll' = [poll EXCEPT !.pc = "write", !.payment = payment]
                    ELSE poll' = NextRow(poll)
  /\ UNCHANGED <<tx, cfg, wh, sent, adminOps, app>>

\* prisma.transaction.update of checkTransaction settles
PollUpdate ==
  /\ poll.pc = "write"
  /\ LET row == Head(poll.queue) IN
     \/ \* the write throws: caught by the loop of checkDeposits
        /\ poll' = NextRow(poll)
        /\ delivered' = Record(delivered, "fault")
        /\ UNCHANGED tx
     \/ /\ tx' = [tx EXCEPT ![row.id] = PrismaUpdate(@, PollUpdateData(poll.payment, row))]
        /\ poll' = [poll EXCEPT !.pc = "notify", !.wrote = TRUE]
        /\ UNCHANGED delivered
  /\ UNCHANGED <<cfg, wh, sent, adminOps, app>>

\* the notifications of checkTransaction, one await each
PollNotify ==
  /\ poll.pc = "notify"
  /\ LET row == Head(poll.queue)
         msgs == PollNotifications(statusMap(poll.payment.raw), row.status)
     IN IF poll.notes < Len(msgs)
          THEN /\ sent' = Send(sent, row.id, msgs[poll.notes + 1])
               /\ \E ok \in BOOLEAN :
                    /\ poll' = AfterSend(poll, ok)
                    /\ delivered' = IF ok THEN delivered
                                    ELSE Record(delivered, "undelivered")
          ELSE /\ poll' = NextRow(poll)
               /\ UNCHANGED <<sent, delivered>>
  /\ UNCHANGED <<tx, cfg, wh, adminOps, app>>

\* ------------------------------------------------------- admin callbacks
\* handleMarkProcessing by the admin: updateStatus(id, PROCESSING)
handleMarkProcessing ==
  /\ adminOps < MaxAdminOps
  /\ \E id \in DOMAIN tx :
       tx' = [tx EXCEPT ![id] = updateStatus(@, PROCESSING, <<>>)]
  /\ adminOps' = adminOps + 1
  /\ UNCHANGED <<cfg, wh, poll, sent, delivered, app>>

\* TransactionService.approve: COMPLETED, completedAt = new Date() (and
\* approvedBy, approvedAt, adminNotes, which no other operation reads)
approve(row) == PrismaUpdate(row, [status |-> COMPLETED, completedAt |-> row.updatedAt + 1])

\* TransactionService.cancel: CANCELLED (and adminNotes)
cancel(row) == PrismaUpdate(row, [status |-> CANCELLED])

\* handleMarkAsPaid of the bot, POST .../approve of the admin API: approve,
\* getById, notifyUserPaymentSent. The update of a row that does not exist
\* throws and the catch answers with an error.
handleMarkAsPaid ==
  /\ adminOps < MaxDecisions
  /\ \E id \in DOMAIN sent :
       IF id \in DOMAIN tx
         THEN /\ tx' = [tx EXCEPT ![id] = approve(@)]
              /\ sent' = Send(sent, id, "paid")
         ELSE UNCHANGED <<tx, sent>>
  /\ adminOps' = adminOps + 1
  /\ UNCHANGED <<cfg, wh, poll, delivered, app>>

\* handleCancelTransaction of the bot, POST .../cancel of the admin API:
\* cancel, getById, notifyUserTransactionCancelled
handleCancelTransaction ==
  /\ adminOps < MaxDecisions
  /\ \E id \in DOMAIN sent :
       IF id \in DOMAIN tx
         THEN /\ tx' = [tx EXCEPT ![id] = cancel(@)]
              /\ sent' = Send(sent, id, "cancelled")
         ELSE UNCHANGED <<tx, sent>>
  /\ adminOps' = adminOps + 1
  /\ UNCHANGED <<cfg, wh, poll, delivered, app>>

\* prisma.user.delete with transactions_userId_fkey ON DELETE CASCADE: the
\* rows of the user's transactions go with the user
UserDelete(rows, user) == [id \in {d \in DOMAIN rows : rows[d].userId # user} |-> rows[id]]

\* handleDeleteAccount of a user who has transactions: findByTelegramId,
\* userService.delete, reply
handleDeleteAccount ==
  /\ \E user \in {tx[id].userId : id \in DOMAIN tx} : tx' = UserDelete(tx, user)
  /\ UNCHANGED <<cfg, wh, poll, sent, adminOps, delivered, app>>

\* CryptoBot.stop on SIGINT/SIGTERM: bot.stop, webhookServer.close,
\* prisma.$disconnect (not awaited; the client connects again on the next
\* query). The cron schedule and the startup timer are not touched.
stop ==
  /\ ~app.stopped
  /\ app' = [app EXCEPT !.stopped = TRUE]
  /\ UNCHANGED <<tx, cfg, wh, poll, sent, adminOps, delivered>>

\* ---------------------------------------------------------- rate limiting
\* config.rateLimit.windowMs, the unit of the model's clock
WindowMs == 1

\* the limit test letting an update through when the count equals the limit
LimitReachedAbove(record, maxMessages) == record.count > maxMessages

\* `record.count >= maxMessages`
LimitReached(record, maxMessages) == record.count >= maxMessages

\* the store with key set to record (Map.set)
MapSet(store, key, record) ==
  [k \in DOMAIN store \cup {key} |-> IF k = key THEN record ELSE store[k]]

\* one update of the user: the outcome and the store rateLimitMiddleware
\* leaves; "passed" is next(), "warned" the reply without next()
Limit(a, user) ==
  LET store == a.rateLimitStore IN
  IF user \notin DOMAIN store \/ a.now > store[user].resetTime
    THEN [outcome |-> "passed",
          store |-> MapSet(store, user, [count |-> 1, resetTime |-> a.now + WindowMs])]
  ELSE IF LimitReached(store[user], a.maxMessages)
    THEN [outcome |-> "warned", store |-> store]
  ELSE [outcome |-> "passed",
        store |-> MapSet(store, user, [store[user] EXCEPT !.count = @ + 1])]

\* the number of updates handled so far
Updates(a) ==
  LET RECURSIVE Sum(_)
      Sum(U) == IF U = {} THEN 0
                ELSE LET u == CHOOSE x \in U : TRUE IN Len(a.log[u]) + Sum(U \ {u})
  IN Sum(DOMAIN a.log)

\* an update of a user reaches rateLimitMiddleware
rateLimitMiddleware ==
  /\ Updates(app) < MaxUpdates
  /\ \E user \in DOMAIN app.log :
       LET r == Limit(app, user) IN
       app' = [app EXCEPT !.rateLimitStore = r.store,
                          !.log[user] = Append(@, [t |-> app.now, outcome |-> r.outcome])]
  /\ UNCHANGED <<tx, cfg, wh, poll, sent, adminOps, delivered>>

\* the setInterval callback deleting the records whose window is over
cleanup ==
  /\ app' = [app EXCEPT !.rateLimitStore =
               [k \in {u \in DOMAIN @ : ~(app.now > @[u].resetTime)} |-> @[k]]]
  /\ UNCHANGED <<tx, cfg, wh, poll, sent, adminOps, delivered>>

\* time passes
Elapse ==
  /\ app.now < MaxTime
  /\ app' = [app EXCEPT !.now = @ + 1]
  /\ UNCHANGED <<tx, cfg, wh, poll, sent, adminOps, delivered>>

\* -------------------------------------------------------- specifications
\* the payloads a sender can post: one per status, order id and paid amount
Payloads(Raws, OrderIds, Paid) ==
  {[payment_id |-> "p1", payment_status |-> raw, order_id |-> o, actually_paid |-> a] :
     raw \in Raws, o \in OrderIds, a \in Paid}

\* the answers of GET /payment/:id
GatewayReports(Raws, Paid) == {EventOf(raw, a) : raw \in Raws, a \in Paid}

InitWith(rows, secrets, enabled, slots, watch) ==
  /\ tx = rows
  /\ cfg \in [secret : secrets, enabled : enabled, adminChatId : {"7"}]
  /\ wh = [i \in 1..slots |-> IdleRequest]
  /\ poll = IdlePoll
  /\ sent = [id \in DOMAIN rows |-> [k \in NotificationKinds |-> 0]]
  /\ adminOps = 0
  /\ delivered = [r \in watch |-> 0]
  /\ app = IdleApp

Webhook(Slots, Methods, Bodies, Keys) ==
  \E i \in Slots :
    \/ Receive(i, Methods)
    \/ ParseBody(i, Bodies, Keys)
    \/ GetById(i)
    \/ UpdateStatus(i)
    \/ Notify(i)
    \/ Respond(i)

Poller(Reports) ==
  \/ checkDeposits
  \/ FindMany
  \/ GetPaymentStatus(Reports)
  \/ PollUpdate
  \/ PollNotify

AllRaws == IPNPaymentStatus \cup {UnknownRaw}

\* one NOWPayments transaction as the sell flow creates it
OneTx == [id \in {"t1"} |-> NewTx(id, "p1", 10)]

\* Reconciliation: events of every gateway status through the webhook and
\* through the poll, and the admin marking the transaction as processing
Init == InitWith(OneTx, {""}, {TRUE}, MaxWebhooks, {})

Next ==
  \/ Webhook(1..MaxWebhooks, {"POST"}, Payloads(AllRaws, {"t1"}, {0}), {})
  \/ Poller(GatewayReports(AllRaws, {0}))
  \/ handleMarkProcessing

Spec == Init /\ [][Next]_vars

\* Redelivery: the gateway posts at-least-once, so the webhook requests of one
\* behaviour may carry the same event again, one after or during the other
InitRedelivery == InitWith(OneTx, {""}, {TRUE}, MaxDeliveries, {})

NextRedelivery ==
  Webhook(1..MaxDeliveries, {"POST"}, Payloads(AllRaws, {"t1"}, {0}), {})

SpecRedelivery == InitRedelivery /\ [][NextRedelivery]_vars

\* Ordering: one "confirming" and one "confirmed" event, each handed once to
\* the webhook or to the poll, in any order and interleaving
OrderRaws == {"confirming", "confirmed"}

Undelivered == {raw \in OrderRaws : delivered[raw] = 0}

InitOrder == InitWith(OneTx, {""}, {TRUE}, MaxDeliveries, OrderRaws \cup {"fault"})

NextOrder ==
  \/ Webhook(1..MaxDeliveries, {"POST"}, Payloads(Undelivered, {"t1"}, {0}), {})
  \/ Poller(GatewayReports(Undelivered, {0}))

SpecOrder == InitOrder /\ [][NextOrder]_vars

\* Ingestion: requests of any method, signed, unsigned or badly signed, naming
\* the transaction, another id or none, with and without a configured secret
IngestRaws == {"confirming", "confirmed", "finished", "expired", UnknownRaw}

InitIngest == InitWith(OneTx, {"", "s1"}, BOOLEAN, MaxRequests, {})

NextIngest ==
  Webhook(1..MaxRequests, {"POST", "GET"},
          Payloads(IngestRaws, {"t1", "tX", ""}, {0, 7}), {"s1", "evil"})

SpecIngest == InitIngest /\ [][NextIngest]_vars

\* ------------------------------------------------------------ properties
Terminal == {COMPLETED, CANCELLED, FAILED, REFUNDED}

\* the canonical order PENDING < PROCESSING < CONFIRMING < CONFIRMED < COMPLETED
Rank(status) ==
  CASE status = PENDING -> 0
    [] status = PROCESSING -> 1
    [] status = CONFIRMING -> 2
    [] status = CONFIRMED -> 3
    [] status = COMPLETED -> 4
    [] OTHER -> -1

\* request i has read its transaction and its event maps to a status
Reconciling(i) == wh[i].tx # NoTx /\ STATUS_MAP(wh[i].body.payment_status) # ""

\* the event of request i sets nothing the row it read does not already hold
Redelivered(i) ==
  /\ Reconciling(i)
  /\ LET data == IPNUpdateData(wh[i].body, wh[i].tx)
     IN \A f \in DOMAIN data : wh[i].tx[f] = data[f]

\* the fields a status event may set, compared between two versions of a row
SameState(a, b) ==
  /\ a.status = b.status
  /\ a.confirmations = b.confirmations
  /\ a.amount = b.amount
  /\ a.completedAt = b.completedAt

\* C1: delivering an event again, to a row that already records what the event
\* sets, leaves the row's state as it is and sends no notification: a step of
\* such a request changes no notification count and, when the row is still
\* the one it read, no field of the row's state.
C1_IdempotentReconciliation ==
  [][\A i \in DOMAIN wh :
       (Redelivered(i) /\ wh'[i] # wh[i]) =>
         /\ sent' = sent
         /\ tx[wh[i].body.order_id] = wh[i].tx =>
              SameState(tx'[wh[i].body.order_id], tx[wh[i].body.order_id])]_vars

Quiescent ==
  /\ \A i \in DOMAIN wh : wh[i].pc \in {"idle", "done"}
  /\ poll.pc = "idle"

\* C2: when one "confirming" and one "confirmed" event have been handed to
\* the channels (either one to either channel), nothing failed and all
\* processing has ended, the transaction is CONFIRMED and the "deposit is
\* being confirmed" notification was sent at most once.
C2_ChannelOrderIndependence ==
  (/\ Quiescent
   /\ delivered = [r \in OrderRaws \cup {"fault"} |-> IF r = "fault" THEN 0 ELSE 1])
    => /\ tx["t1"].status = CONFIRMED
       /\ sent["t1"]["confirming"] <= 1

\* C3: no step moves a transaction to a lower status of the canonical order.
C3_NoBackwardTransitions ==
  [][\A id \in DOMAIN tx :
       (Rank(tx[id].status) >= 0 /\ Rank(tx'[id].status) >= 0) =>
         Rank(tx'[id].status) >= Rank(tx[id].status)]_vars

\* C4: once a transaction is terminal, no webhook or poll step changes its
\* status, confirmations or amount, and a webhook event that read it terminal
\* sends no notification.
C4_TerminalImmutability ==
  [][/\ \A id \in DOMAIN tx :
          (tx[id].status \in Terminal /\ adminOps' = adminOps) =>
            /\ tx'[id].status = tx[id].status
            /\ tx'[id].confirmations = tx[id].confirmations
            /\ tx'[id].amount = tx[id].amount
     /\ \A i \in DOMAIN wh :
          (Reconciling(i) /\ wh[i].tx.status \in Terminal /\ wh'[i] # wh[i]) =>
            sent' = sent]_vars

\* C5: a write is applied only to the version of the row its writer read: the
\* write of a webhook request or of the poll finds updatedAt as it was read.
C5_NoLostUpdate ==
  [][/\ \A i \in DOMAIN wh :
          (wh[i].pc = "write" /\ wh'[i].wrote) =>
            tx[wh[i].body.order_id].updatedAt = wh[i].tx.updatedAt
     /\ (poll.pc = "write" /\ poll'.wrote) =>
          tx[Head(poll.queue).id].updatedAt = Head(poll.queue).updatedAt]_vars

\* request i carries a parsed body: processIPN has been entered for it
Processing(i) == wh[i].pc \in {"read", "write", "notify", "respond"}

\* request i has not touched the store and has sent nothing
Untouched(i) == wh[i].tx = NoTx /\ ~wh[i].wrote /\ wh[i].notes = 0

\* C6: with an IPN secret configured, a request without a signature header is
\* rejected: it never gets to read or write a transaction or to notify.
C6_FailClosedSignature ==
  \A i \in DOMAIN wh :
    (cfg.secret # "" /\ Processing(i) /\ ~Truthy(wh[i].sig)) =>
      (wh[i].pc = "respond" /\ Untouched(i))

\* the signature of request i is present and is not the digest of its payload
\* under the configured secret
BadSignature(i) ==
  /\ cfg.secret # ""
  /\ Truthy(wh[i].sig)
  /\ wh[i].sig # HmacDigest(cfg.secret, createMessageString(wh[i].body))

\* C7: a request whose signature is present and wrong (a digest under another
\* key, of another message, or of another length) never reads or writes a
\* transaction and never notifies.
C7_BadSignatureRejected ==
  \A i \in DOMAIN wh :
    (Processing(i) /\ BadSignature(i)) => (wh[i].pc = "respond" /\ Untouched(i))

\* C7 witness: a wrongly signed request, rejected, waiting to be answered
C7_Witness ==
  \E i \in DOMAIN wh :
    /\ Processing(i) /\ BadSignature(i)
    /\ wh[i].sig.len # DigestLen
    /\ wh[i].body.order_id = "t1"
    /\ wh[i].log = "Invalid IPN signature received"

Answered(i) == wh[i].pc = "done"

\* C8 as claimed: a request that failed signature verification is answered
\* with a 4xx status.
C8_SignatureFailure4xx ==
  \A i \in DOMAIN wh :
    (Answered(i) /\ wh[i].log = "Invalid IPN signature received") =>
      wh[i].resp \in 400..499

\* C8 amended: a request that failed signature verification is answered
\* with 200.
C8_SignatureFailure200 ==
  \A i \in DOMAIN wh :
    (Answered(i) /\ wh[i].log = "Invalid IPN signature received") =>
      wh[i].resp = 200

\* C8 witness: an answered request whose signature was rejected
C8_Witness ==
  \E i \in DOMAIN wh :
    Answered(i) /\ wh[i].log = "Invalid IPN signature received" /\ cfg.secret # ""

\* the log lines of the outcomes of processIPN
ProcessIPNOutcomes ==
  {"Invalid IPN signature received", "IPN received without order_id",
   "Transaction not found", "Unknown IPN status", "Error processing IPN",
   "updated via IPN"}

MalformedOutcomes ==
  {"Error handling webhook", "Unknown IPN status",
   "IPN received without order_id", "Transaction not found"}

\* C10: malformed input is answered with 200 and is not applied: it writes no
\* transaction and sends no notification.
C10_MalformedAcknowledged ==
  \A i \in DOMAIN wh :
    /\ (Answered(i) /\ wh[i].log \in MalformedOutcomes) => wh[i].resp = 200
    /\ (wh[i].pc = "respond" /\ wh[i].log \in MalformedOutcomes) =>
         (~wh[i].wrote /\ wh[i].notes = 0)

\* ------------------------------------------------ unknown gateway status
\* raw statuses without an entry in STATUS_MAP / statusMap (the keys are
\* compared exactly, so another spelling of a known status is unknown too)
UnknownRaws == {UnknownRaw, "FINISHED"}

UnknownStatusRaws == UnknownRaws \cup {"confirmed", "expired"}

\* Unknown statuses: events of unknown and of known statuses through the
\* webhook and through the poll
InitUnknown == InitWith(OneTx, {""}, {TRUE}, MaxWebhooks, UnknownStatusRaws)

NextUnknown ==
  \/ Webhook(1..MaxWebhooks, {"POST"}, Payloads(UnknownStatusRaws, {"t1"}, {0, 7}), {})
  \/ Poller(GatewayReports(UnknownStatusRaws, {0, 7}))

SpecUnknown == InitUnknown /\ [][NextUnknown]_vars

\* the step hands the poll an answer with an unknown status
PollGotUnknown == \E raw \in UnknownRaws : delivered'[raw] > delivered[raw]

\* C11: an event whose raw status is none of the nine known ones is rejected
\* on both channels: no step of a webhook request carrying it, and no step of
\* the poll receiving it, writes a transaction or sends a notification, and
\* neither channel goes on to its write or its notifications with it.
C11_UnknownStatusRejected ==
  [][/\ \A i \in DOMAIN wh :
          (/\ wh'[i] # wh[i]
           /\ \/ wh[i].body.payment_status \notin IPNPaymentStatus \cup {""}
              \/ wh'[i].body.payment_status \notin IPNPaymentStatus \cup {""}) =>
            /\ tx' = tx /\ sent' = sent
            /\ wh'[i].pc \notin {"write", "notify"}
            /\ ~wh'[i].wrote /\ wh'[i].notes = 0
     /\ (poll.pc = "fetch" /\ poll' # poll /\ PollGotUnknown) =>
          /\ tx' = tx /\ sent' = sent
          /\ poll'.pc \notin {"write", "notify"}
          /\ poll'.queue = Tail(poll.queue) \/ poll'.queue = <<>>
     /\ poll'.pc \in {"write", "notify"} => poll'.payment.raw \in IPNPaymentStatus]_vars

\* C11 witness: an unknown status was answered by the gateway to the poll and
\* posted to the webhook, the request is rejected and waits to be answered,
\* and the row is as it was created
C11_Witness ==
  /\ delivered["FINISHED"] + delivered[UnknownRaw] >= 2
  /\ \E i \in DOMAIN wh :
       /\ wh[i].pc = "respond" /\ wh[i].log = "Unknown IPN status"
       /\ wh[i].body.payment_status = "FINISHED" /\ wh[i].body.actually_paid = 7
  /\ poll.ticks = 1 /\ poll.pc = "idle"
  /\ tx = OneTx

\* ------------------------------------------------ confirmation heuristic
\* the transaction created with requiredConfirmations n (create stores
\* `data.requiredConfirmations || 3`, so what is stored is never 0)
RequiredTx(n) ==
  [id \in {"t1"} |-> [NewTx(id, "p1", 10) EXCEPT !.requiredConfirmations = n]]

ConfirmRaws == {"confirming", "confirmed", "finished"}

\* Confirmation: a transaction of any requiredConfirmations, the events of a
\* payment being confirmed and finished through the webhook and the poll
InitConfirm ==
  \E n \in 1..MaxRequired : InitWith(RequiredTx(n), {""}, {TRUE}, MaxWebhooks, {})

NextConfirm ==
  \/ Webhook(1..MaxWebhooks, {"POST"}, Payloads(ConfirmRaws, {"t1"}, {0}), {})
  \/ Poller(GatewayReports(ConfirmRaws, {0}))

SpecConfirm == InitConfirm /\ [][NextConfirm]_vars

\* the confirmations an applied event of status raw leaves in row
ExpectedConfirmations(raw, row) ==
  IF raw = "confirmed" THEN row.requiredConfirmations
  ELSE IF raw = "confirming"
    THEN IF row.requiredConfirmations \div 2 >= 1
           THEN row.requiredConfirmations \div 2 ELSE 1
  ELSE row.confirmations

\* C12: the write of a webhook request and the write of the poll leave
\* confirmations = requiredConfirmations for a "confirmed" event,
\* max(1, floor(requiredConfirmations / 2)) for a "confirming" event, and the
\* stored confirmations for an event of any other status.
C12_ConfirmationHeuristic ==
  [][/\ \A i \in DOMAIN wh :
          (wh[i].pc = "write" /\ wh'[i].wrote) =>
            LET id == wh[i].body.order_id IN
            tx'[id].confirmations =
              ExpectedConfirmations(wh[i].body.payment_status, tx[id])
     /\ (poll.pc = "write" /\ poll'.wrote) =>
          LET id == Head(poll.queue).id IN
          tx'[id].confirmations = ExpectedConfirmations(poll.payment.raw, tx[id])]_vars

\* C12 witness: with requiredConfirmations 1 the webhook applied "confirming"
\* (one confirmation, not floor(1/2) = 0) after the poll applied "confirmed"
C12_Witness ==
  /\ tx["t1"].requiredConfirmations = 1 /\ tx["t1"].confirmations = 1
  /\ tx["t1"].status = CONFIRMING
  /\ poll.ticks = 1 /\ poll.pc = "idle" /\ sent["t1"]["payout"] = 1
  /\ \E i \in DOMAIN wh :
       wh[i].pc = "notify" /\ wh[i].wrote /\ wh[i].body.payment_status = "confirming"

\* --------------------------------- the polling loop, blockchain variant
\* The DepositChecker that looks deposits up on the chain (part_003, lines
\* 197-348). Its checkDeposits has the isRunning guard of the other variant.

\* CRYPTO_CONFIG[cryptocurrency].confirmations of the transaction's currency
CryptoConfigConfirmations == 3

\* a wallet transaction as the sell flow creates it: a wallet, no payment id,
\* no txHash yet, requiredConfirmations taken from CRYPTO_CONFIG
WalletTx(id) ==
  Merge([NewTx(id, "", 10) EXCEPT !.requiredConfirmations = CryptoConfigConfirmations],
        [wallet |-> "w1", txHash |-> ""])

\* the row after an earlier tick detected its deposit with one confirmation
DetectedTx(id) ==
  [WalletTx(id) EXCEPT !.status = CONFIRMING, !.confirmations = 1,
                       !.txHash = "h1", !.updatedAt = 2]

\* the deposits.find(...) of checkTransaction: the matching deposit, with the
\* confirmation count the chain reports for it
MatchingDeposits == {[txHash |-> "h1", confirmations |-> c] : c \in 0..MaxReported}

\* the where clause of findMany and the `if (!tx.wallet) continue` of the loop
ChainSelected(row) == row.status \in {PENDING, CONFIRMING} /\ row.wallet # ""

\* after the deposit is recorded: the confirmations check (lines 305-309)
CheckConfirmations(p) ==
  IF p.payment.confirmations >= CryptoConfigConfirmations
    THEN [p EXCEPT !.pc = "confirm"]
    ELSE [p EXCEPT !.pc = "count"]

\* findMany settles
ChainFindMany ==
  /\ poll.pc = "find"
  /\ \/ poll' = [IdlePoll EXCEPT !.ticks = poll.ticks]
     \/ LET rows == {tx[id] : id \in {d \in DOMAIN tx : ChainSelected(tx[d])}} IN
        IF rows = {}
          THEN poll' = [IdlePoll EXCEPT !.ticks = poll.ticks]
          ELSE \E q \in Orderings(rows) : poll' = [poll EXCEPT !.pc = "fetch", !.queue = q]
  /\ UNCHANGED <<tx, cfg, wh, sent, adminOps, delivered, app>>

\* cryptoService.checkDeposits settles: it throws, or no deposit matches, or
\* one does
ChainLookup ==
  /\ poll.pc = "fetch"
  /\ \/ poll' = NextRow(poll)
     \/ \E d \in MatchingDeposits :
          IF Head(poll.queue).txHash = ""
            THEN poll' = [poll EXCEPT !.pc = "detect", !.payment = d]
            ELSE poll' = CheckConfirmations([poll EXCEPT !.payment = d])
  /\ UNCHANGED <<tx, cfg, wh, sent, adminOps, delivered, app>>

\* the first update (lines 284-292) settles: txHash, confirmations, CONFIRMING
ChainDetect ==
  /\ poll.pc = "detect"
  /\ LET row == Head(poll.queue) IN
     \/ poll' = NextRow(poll) /\ UNCHANGED tx
     \/ /\ tx' = [tx EXCEPT ![row.id] =
                    PrismaUpdate(@, [txHash |-> poll.payment.txHash,
                                     confirmations |-> poll.payment.confirmations,
                                     status |-> CONFIRMING])]
        /\ poll' = [poll EXCEPT !.pc = "detected", !.wrote = TRUE]
  /\ UNCHANGED <<cfg, wh, sent, adminOps, delivered, app>>

\* the "Deposit Detected" message to the user, then the confirmations check
ChainDetectNotify ==
  /\ poll.pc = "detected"
  /\ sent' = Send(sent, Head(poll.queue).id, "confirming")
  /\ poll' = CheckConfirmations(poll)
  /\ UNCHANGED <<tx, cfg, wh, adminOps, delivered, app>>

\* the update to CONFIRMED (lines 311-317) settles
ChainConfirm ==
  /\ poll.pc = "confirm"
  /\ LET row == Head(poll.queue) IN
     \/ poll' = NextRow(poll) /\ UNCHANGED tx
     \/ /\ tx' = [tx EXCEPT ![row.id] =
                    PrismaUpdate(@, [status |-> CONFIRMED,
                                     confirmations |-> poll.payment.confirmations])]
        /\ poll' = [poll EXCEPT !.pc = "notify", !.wrote = TRUE, !.notes = 0]
  /\ UNCHANGED <<cfg, wh, sent, adminOps, delivered, app>>

\* the update of the confirmations count alone (lines 338-341) settles
ChainCount ==
  /\ poll.pc = "count"
  /\ LET row == Head(poll.queue) IN
     \/ poll' = NextRow(poll) /\ UNCHANGED tx
     \/ /\ tx' = [tx EXCEPT ![row.id] =
                    PrismaUpdate(@, [confirmations |-> poll.payment.confirmations])]
        /\ poll' = NextRow(poll)
  /\ UNCHANGED <<cfg, wh, sent, adminOps, delivered, app>>

\* notifyUserDepositConfirmed, then notifyAdminDeposit, one await each
ChainNotify ==
  /\ poll.pc = "notify"
  /\ LET msgs == <<"confirmed", "payout">> IN
     IF poll.notes < Len(msgs)
       THEN /\ sent' = Send(sent, Head(poll.queue).id, msgs[poll.notes + 1])
            /\ poll' = [poll EXCEPT !.notes = @ + 1]
       ELSE /\ poll' = NextRow(poll)
            /\ UNCHANGED sent
  /\ UNCHANGED <<tx, cfg, wh, adminOps, delivered, app>>

\* two wallet transactions, one fresh and one already detected
WalletTxs == [id \in {"t1", "t2"} |-> IF id = "t1" THEN WalletTx(id) ELSE DetectedTx(id)]

\* Chain: the wallet transactions polled on the chain while the admin may
\* mark one as processing
InitChain == InitWith(WalletTxs, {""}, {TRUE}, 0, {})

NextChain ==
  \/ checkDeposits
  \/ ChainFindMany
  \/ ChainLookup
  \/ ChainDetect
  \/ ChainDetectNotify
  \/ ChainConfirm
  \/ ChainCount
  \/ ChainNotify
  \/ handleMarkProcessing

SpecChain == InitChain /\ [][NextChain]_vars

\* C13: in every state every transaction has
\* 0 <= confirmations <= requiredConfirmations.
C13_ConfirmationsClamped ==
  \A id \in DOMAIN tx :
    /\ 0 <= tx[id].confirmations
    /\ tx[id].confirmations <= tx[id].requiredConfirmations

\* C14: while a transaction is not terminal before and after a step, the step
\* does not lower its stored confirmations.
C14_MonotoneConfirmations ==
  [][\A id \in DOMAIN tx :
       (tx[id].status \notin Terminal /\ tx'[id].status \notin Terminal) =>
         tx'[id].confirmations >= tx[id].confirmations]_vars

\* C15: completedAt is set exactly once, on entering COMPLETED: a row that is
\* COMPLETED after a step has completedAt set, completedAt becomes set only in
\* a step that leaves the row COMPLETED, and once set it keeps its value.
C15_CompletedAtOnce ==
  [][\A id \in DOMAIN tx :
       /\ tx'[id].status = COMPLETED => tx'[id].completedAt # 0
       /\ (tx[id].completedAt = 0 /\ tx'[id].completedAt # 0) =>
            tx'[id].status = COMPLETED
       /\ tx[id].completedAt # 0 => tx'[id].completedAt = tx[id].completedAt]_vars

\* --------------------------------------------------- payment id mismatch
\* payloads naming transaction t1 under its own payment id and under another
MismatchPayloads ==
  {[b EXCEPT !.payment_id = p] :
     b \in Payloads({"confirmed", "finished"}, {"t1"}, {0, 7}), p \in {"p1", "p2"}}

\* Mismatch: webhook requests for t1 (paymentId p1) carrying payment id p1 or p2
InitMismatch == InitWith(OneTx, {""}, {TRUE}, MaxDeliveries, {})

NextMismatch == Webhook(1..MaxDeliveries, {"POST"}, MismatchPayloads, {})

SpecMismatch == InitMismatch /\ [][NextMismatch]_vars

\* C16: a webhook event whose payment_id differs from the paymentId of the
\* transaction it names is not applied: the request that read the transaction
\* neither writes it nor sends a notification.
C16_PaymentIdMismatchRejected ==
  \A i \in DOMAIN wh :
    (/\ wh[i].tx # NoTx
     /\ wh[i].tx.paymentId # ""
     /\ wh[i].body.payment_id # wh[i].tx.paymentId) =>
      (~wh[i].wrote /\ wh[i].notes = 0)

\* ------------------------------------------------- notifications sent
\* a step of the running tick (not a cron trigger arriving meanwhile)
TickStep == poll' # poll /\ poll'.ticks = poll.ticks

\* what a channel that wrote CONFIRMED does next, having sent n of its
\* messages: the user's "deposit confirmed", then the admin's "payout
\* needed", then nothing more
ConfirmedStep(id, n, more) ==
  CASE n = 0 -> more /\ sent' = Send(sent, id, "confirmed")
    [] n = 1 -> more /\ sent' = Send(sent, id, "payout")
    [] OTHER -> ~more /\ sent' = sent

\* C17: a webhook request or a poll that applied CONFIRMED to a transaction
\* goes on to its notifications, and sends exactly one "deposit confirmed"
\* message to the user and then exactly one "payout needed" message to the
\* admin before it ends.
C17_ConfirmedNotifications ==
  [][/\ \A i \in DOMAIN wh :
          LET id == wh[i].body.order_id IN
          /\ (wh[i].pc = "write" /\ wh'[i].wrote /\ tx'[id].status = CONFIRMED) =>
               (wh'[i].pc = "notify" /\ wh'[i].notes = 0)
          /\ (/\ wh[i].pc = "notify" /\ wh'[i] # wh[i]
              /\ STATUS_MAP(wh[i].body.payment_status) = CONFIRMED) =>
               /\ ConfirmedStep(id, wh[i].notes, wh'[i].pc = "notify")
               /\ wh'[i].pc = "notify" => wh'[i].notes = wh[i].notes + 1
               /\ wh'[i].pc # "notify" => (wh'[i].pc = "respond" /\ wh'[i].ok)
     /\ (poll.pc = "write" /\ poll'.wrote /\ tx'[Head(poll.queue).id].status = CONFIRMED) =>
          (poll'.pc = "notify" /\ poll'.notes = 0)
     /\ (poll.pc = "notify" /\ TickStep /\ statusMap(poll.payment.raw) = CONFIRMED) =>
          /\ ConfirmedStep(Head(poll.queue).id, poll.notes, poll'.pc = "notify")
          /\ poll'.pc = "notify" => poll'.notes = poll.notes + 1]_vars

\* C17 witness: the webhook moved the transaction from PENDING to CONFIRMED,
\* nothing else has touched it, and the request has sent one message to the
\* user and one to the admin and returned
C17_Witness ==
  /\ poll.ticks = 0
  /\ tx["t1"].status = CONFIRMED /\ tx["t1"].updatedAt = 2
  /\ sent["t1"]["confirmed"] = 1 /\ sent["t1"]["payout"] = 1
  /\ \E i \in DOMAIN wh :
       /\ wh[i].pc = "respond" /\ wh[i].ok /\ wh[i].notes = 2
       /\ wh[i].tx.status = PENDING /\ wh[i].body.payment_status = "confirmed"

\* C18: a webhook request or a poll that applied COMPLETED or CANCELLED to a
\* transaction has sent a notification to the user when it ends.
C18_TerminalNotifications ==
  [][/\ \A i \in DOMAIN wh :
          (/\ wh[i].pc = "notify" /\ wh'[i].pc = "respond"
           /\ STATUS_MAP(wh[i].body.payment_status) \in {COMPLETED, CANCELLED}) =>
            wh[i].notes >= 1
     /\ (/\ poll.pc = "notify" /\ poll'.pc # "notify"
         /\ statusMap(poll.payment.raw) \in {COMPLETED, CANCELLED}) =>
          poll.notes >= 1]_vars

\* C19: every transaction that is CONFIRMED has confirmations >=
\* requiredConfirmations, and a "payout needed" message is sent for a
\* transaction only while its stored status is CONFIRMED with confirmations >=
\* requiredConfirmations.
C19_PayoutGating ==
  [][\A id \in DOMAIN tx :
       /\ tx'[id].status = CONFIRMED =>
            tx'[id].confirmations >= tx'[id].requiredConfirmations
       /\ sent'[id]["payout"] > sent[id]["payout"] =>
            /\ tx[id].status = CONFIRMED
            /\ tx[id].confirmations >= tx[id].requiredConfirmations]_vars

\* ---------------------------------------------------------- poll selection
\* four transactions: t1 just created, t2 confirmed by an earlier event, t3
\* created without a payment id, t4 being confirmed
SelectTxs ==
  [id \in {"t1", "t2", "t3", "t4"} |->
     CASE id = "t1" -> NewTx(id, "p1", 10)
       [] id = "t2" -> [NewTx(id, "p2", 10) EXCEPT !.status = CONFIRMED,
                          !.confirmations = DefaultRequiredConfirmations, !.updatedAt = 2]
       [] id = "t3" -> NewTx(id, "", 10)
       [] OTHER -> [NewTx(id, "p4", 10) EXCEPT !.status = CONFIRMING,
                      !.confirmations = HalfConfirmations(DefaultRequiredConfirmations),
                      !.updatedAt = 2]]

\* the gateway's notifications "confirmed" for t1 (with the amount paid) and
\* "waiting" for t2, each under its payment id
SelectPayloads ==
  {[b EXCEPT !.payment_id = SelectTxs[b.order_id].paymentId] :
     b \in Payloads({"confirmed"}, {"t1"}, {7}) \cup Payloads({"waiting"}, {"t2"}, {0})}

\* Selection: the poll over the four transactions while webhook events move
\* t1 and t2 into and out of the polled statuses
InitSelect == InitWith(SelectTxs, {""}, {TRUE}, MaxWebhooks, {"fault"})

NextSelect ==
  \/ Webhook(1..MaxWebhooks, {"POST"}, SelectPayloads, {})
  \/ Poller(GatewayReports({"confirming", "finished"}, {0}))

SpecSelect == InitSelect /\ [][NextSelect]_vars

\* the ids of the rows in the poll's list
Queued(q) == {q[n].id : n \in DOMAIN q}

\* the transactions the claim has a tick work on, as stored in rows
Pollable(rows) ==
  {id \in DOMAIN rows :
     rows[id].status \in {PENDING, CONFIRMING} /\ rows[id].paymentId # ""}

\* C20: the list a tick works on is, when its enumeration succeeds, exactly
\* the transactions that are PENDING or CONFIRMING with a paymentId at that
\* moment, each once; the tick asks the gateway about the head of the list,
\* drops a row from the list only after that request settled, and writes and
\* notifies for no transaction but the head of its list.
C20_PollSelection ==
  [][/\ (poll.pc = "find" /\ TickStep /\ delivered' = delivered) =>
          /\ Queued(poll'.queue) = Pollable(tx)
          /\ Len(poll'.queue) = Cardinality(Pollable(tx))
          /\ \A n \in DOMAIN poll'.queue : poll'.queue[n] = tx[poll'.queue[n].id]
          /\ poll'.pc = IF Pollable(tx) = {} THEN "idle" ELSE "fetch"
     /\ (poll.pc \in {"fetch", "write", "notify"} /\ TickStep) =>
          /\ \/ poll'.queue = poll.queue /\ (poll'.pc = "fetch" => poll.pc = "fetch")
             \/ poll'.queue = Tail(poll.queue) /\ poll'.pc = "fetch"
             \/ Len(poll.queue) = 1 /\ poll'.pc = "idle"
          /\ \A id \in DOMAIN tx :
               (tx'[id] # tx[id] \/ sent'[id] # sent[id]) => id = Head(poll.queue).id
     /\ (poll' # poll /\ ~(poll.pc \in {"write", "notify"} /\ TickStep)) =>
          (tx' = tx /\ sent' = sent)]_vars

\* C20 witness: a tick that listed t1 and t4 (and neither t2, CONFIRMED, nor
\* t3, without a payment id) has written t4 and is now asking about t1, which
\* a webhook event has meanwhile made CONFIRMED
C20_Witness ==
  /\ poll.pc = "fetch" /\ Queued(poll.queue) = {"t1"}
  /\ tx["t4"].status = COMPLETED
  /\ tx["t1"].status = CONFIRMED /\ Head(poll.queue).status = PENDING
  /\ tx["t2"] = SelectTxs["t2"] /\ tx["t3"] = SelectTxs["t3"]

\* ------------------------------------------------ poll failure isolation
\* C21: when the gateway request or the store write of the tick's current
\* transaction fails, no transaction changes and no message is sent in that
\* step, and the tick goes on to ask about the next transaction of its list
\* (it ends only when the list is exhausted).
C21_PollFailureIsolation ==
  [][(/\ poll.pc \in {"fetch", "write"} /\ TickStep
      /\ delivered'["fault"] = delivered["fault"] + 1) =>
       /\ tx' = tx /\ sent' = sent
       /\ IF Len(poll.queue) > 1
            THEN poll'.pc = "fetch" /\ poll'.queue = Tail(poll.queue)
            ELSE poll'.pc = "idle"]_vars

\* C21 witness: no webhook request was made, the tick failed on t4 and left
\* it as it was, and has gone on to write t1
C21_Witness ==
  /\ wh[1].pc = "idle" /\ delivered["fault"] = 1
  /\ poll.pc = "notify" /\ poll.wrote /\ Queued(poll.queue) = {"t1"}
  /\ tx["t4"] = SelectTxs["t4"] /\ tx["t1"].status = COMPLETED

\* ------------------------------------------------------ re-entrancy guard
\* Guard: the cron schedule and the startup timer trigger checkDeposits
\* whether or not an earlier execution has finished
InitGuard == InitWith(SelectTxs, {""}, {TRUE}, 0, {"fault", "confirmed"})

NextGuard ==
  \/ checkDepositsUpTo(MaxTriggers)
  \/ FindMany
  \/ GetPaymentStatus(GatewayReports({"confirmed"}, {0}))
  \/ PollUpdate
  \/ PollNotify

SpecGuard == InitGuard /\ [][NextGuard]_vars

\* a cron or startup trigger fires in this step
TriggerStep == poll'.ticks = poll.ticks + 1

\* C22: an execution of checkDeposits is in flight exactly while isRunning is
\* set; a trigger changes no transaction and sends nothing; when it fires
\* while an execution is in flight it starts no enumeration and leaves that
\* execution's position and list as they are, otherwise it sets the flag and
\* issues the enumeration.
C22_ReentrancyGuard ==
  [][/\ poll.isRunning <=> poll.pc # "idle"
     /\ TriggerStep =>
          /\ tx' = tx /\ sent' = sent
          /\ IF poll.isRunning
               THEN poll' = [poll EXCEPT !.ticks = @ + 1]
               ELSE poll'.isRunning /\ poll'.pc = "find" /\ poll'.queue = <<>>]_vars

\* C22 witness: the second trigger has fired and the tick has not yet had
\* an answer or a failure for any row of its list: the execution the first
\* trigger started is still the one in flight
C22_Witness ==
  /\ poll.ticks = 2 /\ poll.isRunning /\ poll.pc = "fetch"
  /\ Queued(poll.queue) = {"t1", "t4"}
  /\ \A r \in DOMAIN delivered : delivered[r] = 0

\* ------------------------------------------------------- polling fallback
\* the cron schedule ('*/30 * * * * *') calling checkDeposits again and again
cron ==
  /\ poll' = Enter(poll)
  /\ UNCHANGED <<tx, cfg, wh, sent, adminOps, delivered, app>>

\* Fallback: no webhook request ever arrives; the gateway, when it answers,
\* reports "confirmed" (with or without an amount received); the
\* transactions were created with any requiredConfirmations
InitFallback ==
  \E n \in 1..MaxRequired :
    InitWith([id \in DOMAIN SelectTxs |-> [SelectTxs[id] EXCEPT !.requiredConfirmations = n]],
             {""}, {TRUE}, 0, {})

NextFallback ==
  \/ cron
  \/ FindMany
  \/ GetPaymentStatus(GatewayReports({"confirmed"}, {0, 7}))
  \/ PollUpdate
  \/ PollNotify

SpecFallback == InitFallback /\ [][NextFallback]_vars

\* the schedule keeps firing and the event loop runs every settled await
\* (weak fairness); the enumeration, the gateway request and the store write,
\* each tried again and again, succeed in the end (strong fairness)
FairFallback ==
  /\ SpecFallback
  /\ WF_vars(cron)
  /\ WF_vars(FindMany)
  /\ WF_vars(GetPaymentStatus(GatewayReports({"confirmed"}, {0, 7})))
  /\ WF_vars(PollUpdate)
  /\ WF_vars(PollNotify)
  /\ SF_vars(FindMany /\ poll'.pc = "fetch")
  /\ SF_vars(GetPaymentStatus(GatewayReports({"confirmed"}, {0, 7})) /\ poll'.pc = "write")
  /\ SF_vars(PollUpdate /\ poll'.wrote)

\* the transaction is CONFIRMED and both messages were handed to the
\* notification service
ConfirmedAndNotified(id) ==
  /\ tx[id].status = CONFIRMED
  /\ sent[id]["confirmed"] >= 1 /\ sent[id]["payout"] >= 1

InitNotify == InitWith(OneTx, {""}, {TRUE}, MaxWebhooks, {"undelivered"})

NextNotify ==
  \/ Webhook(1..MaxWebhooks, {"POST"}, Payloads({"confirmed", "expired"}, {"t1"}, {7}), {})
  \/ Poller(GatewayReports({"confirming", "confirmed"}, {0}))

SpecNotify == InitNotify /\ [][NextNotify]_vars

\* a message is not delivered in this step
SendFails == delivered'["undelivered"] = delivered["undelivered"] + 1

\* C24: a step in which a notification is not delivered changes no
\* transaction, and the webhook request or the poll that sent it goes on
\* exactly as after a delivered message; a webhook request that wrote returns
\* from processIPN with true ("updated via IPN").
C24_NotificationFailure ==
  [][/\ \A i \in DOMAIN wh :
          /\ (wh[i].pc = "notify" /\ wh'[i] # wh[i] /\ SendFails) =>
               (tx' = tx /\ wh'[i] = [wh[i] EXCEPT !.notes = @ + 1])
          /\ (wh[i].pc = "respond" /\ wh[i].wrote) =>
               (wh[i].ok /\ wh[i].log = "updated via IPN")
     /\ (poll.pc = "notify" /\ TickStep /\ SendFails) =>
          (tx' = tx /\ poll' = [poll EXCEPT !.notes = @ + 1])]_vars

\* C24 witness: the webhook wrote CONFIRMED with the amount paid, neither of
\* its two messages was delivered, and the request was answered as applied
C24_Witness ==
  /\ poll.ticks = 0 /\ delivered["undelivered"] = 2
  /\ wh[1].pc = "done" /\ wh[1].resp = 200 /\ wh[1].log = "updated via IPN"
  /\ tx["t1"].status = CONFIRMED /\ tx["t1"].amount = 7
  /\ tx["t1"].confirmations = tx["t1"].requiredConfirmations
  /\ sent["t1"]["confirmed"] = 1 /\ sent["t1"]["payout"] = 1

\* ------------------------------------------------- no IPN secret configured
\* processIPN after a signature check that passed, up to its first await
Accepted(r) ==
  IF r.body.order_id = ""
    THEN Returned(r, FALSE, "IPN received without order_id")
    ELSE [r EXCEPT !.pc = "read"]

\* the request of slot i with the body and header this step parsed
Parsed(i) == [wh[i] EXCEPT !.body = wh'[i].body, !.sig = wh'[i].sig]

\* C25: without a secret, verifySignature is true of every payload and
\* signature; a request whose body parsed then goes on, whatever signature it
\* carries, exactly as a request with the correct signature goes on when a
\* secret is configured, and is never refused for its signature.
C25_DegradedMode ==
  [][\A i \in DOMAIN wh :
       /\ (cfg.secret = "" /\ wh'[i].body # NoBody) =>
            verifySignature(cfg.secret, wh'[i].body, wh'[i].sig)
       /\ (wh[i].pc = "parse" /\ wh'[i].body # NoBody) =>
            /\ cfg.secret = "" => wh'[i] = Accepted(Parsed(i))
            /\ (/\ cfg.secret # ""
                /\ wh'[i].sig = HmacDigest(cfg.secret, createMessageString(wh'[i].body))) =>
                 wh'[i] = Accepted(Parsed(i))
       /\ cfg.secret = "" => wh'[i].log # "Invalid IPN signature received"]_vars

\* C25 witness: no secret is configured and a request signed under a key of
\* the sender's own choosing has written CONFIRMED
C25_Witness ==
  /\ cfg.secret = ""
  /\ wh[1].pc = "notify" /\ wh[1].wrote /\ wh[1].sig.key = "evil"
  /\ tx["t1"].status = CONFIRMED

\* --------------------------------------------------------- administration
\* the transactions of two users
UserTxs ==
  [id \in {"t1", "t2"} |->
     IF id = "t1" THEN NewTx(id, "p1", 10) ELSE [NewTx(id, "p2", 10) EXCEPT !.userId = "u2"]]

\* Administration: the admin marks transactions as paid, as processing or as
\* cancelled, in any order, and users delete their accounts
InitAdmin == InitWith(UserTxs, {""}, {TRUE}, 0, {})

NextAdmin ==
  \/ handleMarkAsPaid
  \/ handleCancelTransaction
  \/ handleMarkProcessing
  \/ handleDeleteAccount

SpecAdmin == InitAdmin /\ [][NextAdmin]_vars

\* C26: a step of any operation leaves the status of a transaction that is
\* COMPLETED, CANCELLED, FAILED or REFUNDED as it is.
C26_TerminalIsFinal ==
  [][\A id \in DOMAIN tx \cap DOMAIN tx' :
       tx[id].status \in Terminal => tx'[id].status = tx[id].status]_vars

\* C27: a transaction in the store is in the store after every step.
C27_NeverDeleted ==
  [][\A id \in DOMAIN tx : id \in DOMAIN tx']_vars

\* ---------------------------------------------------------------- shutdown
\* Shutdown: the process is told to stop at any moment of a webhook request
\* or a tick
InitShutdown == InitWith(OneTx, {""}, {TRUE}, MaxWebhooks, {})

NextShutdown ==
  \/ stop
  \/ Webhook(1..MaxWebhooks, {"POST"}, Payloads({"confirmed"}, {"t1"}, {0}), {})
  \/ Poller(GatewayReports({"confirming", "confirmed"}, {0}))

SpecShutdown == InitShutdown /\ [][NextShutdown]_vars

\* C28: once the stop handler has run, no tick starts and no webhook request
\* is taken in (steps of a tick or a request already in flight are allowed).
C28_GracefulShutdown ==
  [][app.stopped =>
       /\ ~(poll.pc = "idle" /\ poll'.pc # "idle")
       /\ \A i \in DOMAIN wh : ~(wh[i].pc = "idle" /\ wh'[i].pc # "idle")]_vars

\* ----------------------------------------------------- rate-limit windows
\* RateLimit: two users send updates at any times, with any configured limit
InitRateLimit ==
  /\ tx = <<>> /\ sent = <<>> /\ wh = <<>> /\ delivered = <<>>
  /\ cfg = [secret |-> "", enabled |-> TRUE, adminChatId |-> "7"]
  /\ poll = IdlePoll
  /\ adminOps = 0
  /\ \E m \in 1..MaxMessages :
       app = [IdleApp EXCEPT !.maxMessages = m, !.log = [u \in {"u1", "u2"} |-> <<>>]]

NextRateLimit ==
  \/ rateLimitMiddleware
  \/ cleanup
  \/ Elapse

SpecRateLimit == InitRateLimit /\ [][NextRateLimit]_vars

\* the update of L that opened the window the n-th update of L falls in: the
\* first update, and every update later than resetTime of the window before
RECURSIVE Opener(_, _)
Opener(L, n) ==
  IF n = 1 THEN 1
  ELSE LET o == Opener(L, n - 1) IN
       IF L[n].t > L[o].t + WindowMs THEN n ELSE o

\* the updates among from..to of L that were passed on
PassedOn(L, from, to) == Cardinality({j \in from..to : L[j].outcome = "passed"})

EventFields == {"status", "confirmations", "amount", "completedAt", "updatedAt"}

\* the webhook request i or the poll writes transaction id in this step
WritesTo(id) ==
  \/ \E i \in DOMAIN wh :
       wh[i].pc = "write" /\ wh'[i].wrote /\ wh[i].body.order_id = id
  \/ poll.pc = "write" /\ poll'.wrote /\ Head(poll.queue).id = id

MappingRaws == AllRaws \cup UnknownRaws

\* Mapping: one webhook request and the poll, each handed any raw status
InitMapping == InitWith(OneTx, {""}, {TRUE}, 1, {})

NextMapping ==
  \/ Webhook(1..1, {"POST"}, Payloads(MappingRaws, {"t1"}, {0}), {})
  \/ Poller(GatewayReports(MappingRaws, {0}))

SpecMapping == InitMapping /\ [][NextMapping]_vars

\* the internal status the gateway's vocabulary stands for, "" for none
InternalStatus(raw) ==
  CASE raw \in {"waiting"} -> PENDING
    [] raw \in {"confirming", "partially_paid"} -> CONFIRMING
    [] raw \in {"confirmed"} -> CONFIRMED
    [] raw \in {"sending"} -> PROCESSING
    [] raw \in {"finished"} -> COMPLETED
    [] raw \in {"failed"} -> FAILED
    [] raw \in {"refunded"} -> REFUNDED
    [] raw \in {"expired"} -> CANCELLED
    [] OTHER -> ""

\* C31: STATUS_MAP of the webhook and statusMap of the poll agree on every
\* raw status (same internal status, or both undefined), namely on the
\* documented table; a webhook request and a tick that got as far as their
\* write were handed a raw status both tables map, and the status a webhook
\* wrote last is the one the poll's table gives for its raw status.
C31_SameMapping ==
  /\ \A raw \in MappingRaws :
       STATUS_MAP(raw) = statusMap(raw) /\ STATUS_MAP(raw) = InternalStatus(raw)
  /\ \A i \in DOMAIN wh :
       wh[i].pc \in {"write", "notify"} =>
         /\ statusMap(wh[i].body.payment_status) # ""
         /\ (wh[i].pc = "notify" /\ poll.ticks = 0) =>
              tx["t1"].status = statusMap(wh[i].body.payment_status)
  /\ poll.pc \in {"write", "notify"} => STATUS_MAP(poll.payment.raw) # ""

\* C31 witness: the webhook wrote CANCELLED for "expired" while the tick,
\* which read the transaction PENDING, is about to write for "expired" too
C31_Witness ==
  /\ wh[1].pc = "notify" /\ wh[1].body.payment_status = "expired"
  /\ tx["t1"].status = CANCELLED
  /\ poll.pc = "write" /\ poll.payment.raw = "expired"
  /\ statusMap(poll.payment.raw) = tx["t1"].status

\* ------------------------------------------------------ unchanged status
\* the answers of the gateway to a tick over a PENDING and a CONFIRMING row
NoopRaws == {"waiting", "partially_paid"}

\* Noop: the poll over the four transactions, the gateway answering with a
\* status that is or is not the one the tick read, while a webhook event may
\* change t1 after the tick listed it
InitNoop == InitWith(SelectTxs, {""}, {TRUE}, MaxWebhooks, NoopRaws)

NextNoop ==
  \/ Webhook(1..MaxWebhooks, {"POST"}, Payloads({"confirming"}, {"t1"}, {0}), {})
  \/ Poller(GatewayReports(NoopRaws, {0}))

SpecNoop == InitNoop /\ [][NextNoop]_vars

\* C32: when the gateway's answer for the tick's current transaction maps to
\* the status the tick read for it when it listed it, the step changes no
\* transaction, sends nothing and ends the work on that transaction (the tick
\* goes to its next row or ends): there is no write and no notification.
C32_PollNoop ==
  [][\A raw \in NoopRaws :
       (/\ poll.pc = "fetch" /\ TickStep
        /\ delivered'[raw] = delivered[raw] + 1
        /\ statusMap(raw) = Head(poll.queue).status) =>
         /\ tx' = tx /\ sent' = sent
         /\ poll' = NextRow(poll)]_vars

\* C32 witness: the tick listed t1 PENDING, the webhook made it CONFIRMING,
\* the gateway answered "waiting" for t1 and "partially_paid" for t4, and
\* the tick has ended without a write or a message of its own
C32_Witness ==
  /\ poll.ticks = 1 /\ poll.pc = "idle"
  /\ delivered = [raw \in NoopRaws |-> 1]
  /\ wh[1].pc = "done"
  /\ tx["t1"].status = CONFIRMING /\ tx["t1"].updatedAt = 2
  /\ tx["t4"] = SelectTxs["t4"]
  /\ sent["t4"]["confirming"] = 0 /\ sent["t1"]["confirming"] = 1

\* ------------------------------------------------------ write, then notify
\* C33: a message about a transaction is sent only by a webhook request or a
\* tick whose write of that transaction has succeeded, in a step after the
\* write; a request or a tick whose write has not succeeded has sent nothing.
C33_WriteBeforeNotify ==
  [][/\ \A id \in DOMAIN sent :
          sent'[id] # sent[id] =>
            /\ tx' = tx
            /\ \/ \E i \in DOMAIN wh :
                    /\ wh[i].pc = "notify" /\ wh[i].wrote /\ wh[i].body.order_id = id
                    /\ wh'[i].notes = wh[i].notes + 1
                 \/ /\ poll.pc = "notify" /\ poll.wrote /\ Head(poll.queue).id = id
                    /\ poll'.notes = poll.notes + 1
     /\ \A i \in DOMAIN wh : ~wh'[i].wrote => wh'[i].notes = 0
     /\ ~poll'.wrote => poll'.notes = 0]_vars

\* C33 witness: the webhook read the transaction, its write threw, processIPN
\* returned false, and no message was sent
C33_Witness ==
  /\ poll.ticks = 0
  /\ wh[1].pc = "respond" /\ ~wh[1].ok /\ wh[1].log = "Error processing IPN"
  /\ wh[1].tx.id = "t1" /\ ~wh[1].wrote /\ wh[1].notes = 0
  /\ tx = OneTx
  /\ \A k \in NotificationKinds : sent["t1"][k] = 0

\* ------------------------------------------------- the guard is released
\* C34: when a tick ends, however it ends, isRunning is false: no state has
\* the flag set with no tick executing, and a trigger that fires when no
\* tick is executing starts one.
C34_GuardReleased ==
  [][/\ poll'.pc = "idle" => ~poll'.isRunning
     /\ (poll.pc = "idle" /\ TriggerStep) => (poll'.isRunning /\ poll'.pc = "find")]_vars

\* C34 witness: the first tick ended when its enumeration threw, and the
\* second trigger started a tick that has listed both transactions
C34_Witness ==
  /\ poll.ticks = 2 /\ poll.pc = "fetch" /\ Len(poll.queue) = 2
  /\ delivered["fault"] = 1 /\ delivered["confirmed"] = 0

\* ---------------------------------------------------- one response each
ResponseCodes == {200, 403, 405, 500}

\* C35: a request is answered in the step in which handleWebhook returns,
\* once, and never again: with 403 when IPN is disabled and with 405 when the
\* method is not POST (both before the body is read, no transaction
\* changing), with 500 when reading the body throws, and with 200 after
\* processIPN returned, true or false; a request in flight always has a next
\* step.
C35_OneResponse ==
  [][\A i \in DOMAIN wh :
       /\ wh[i].pc = "done" => wh'[i] = wh[i]
       /\ wh'[i].pc # "done" => wh'[i].resp = 0
       /\ (wh[i].pc # "done" /\ wh'[i].pc = "done") =>
            /\ wh'[i].resp \in ResponseCodes
            /\ tx' = tx /\ sent' = sent
            /\ wh[i].pc \in {"idle", "parse", "respond"}
            /\ wh[i].pc = "idle" =>
                 wh'[i].resp = IF ~cfg.enabled THEN 403 ELSE 405
            /\ wh[i].pc = "parse" => wh'[i].resp = 500
            /\ wh[i].pc = "respond" => wh'[i].resp = 200
       /\ (wh[i].pc = "idle" /\ wh'[i].pc = "parse") =>
            (cfg.enabled /\ wh'[i].method = "POST")
       /\ wh[i].pc \notin {"idle", "done"} => ENABLED <<NextIngest>>_vars]_vars

\* C35 witness: an enabled endpoint answered a POST whose body could not be
\* read with 500, and the transaction is as it was
C35_Witness ==
  /\ cfg.enabled
  /\ wh[1].pc = "done" /\ wh[1].resp = 500
  /\ tx = OneTx

\* --------------------------------------------------------------- sell flow
\* the updates handed to the sell handlers, and the handler calls in flight
MaxSteps == 7
MaxCalls == 2

\* the session states of the sell flow
SessionState ==
  [NONE |-> "none", SELECTING_CRYPTO |-> "selecting_crypto",
   SELECTING_NETWORK |-> "selecting_network", ENTERING_AMOUNT |-> "entering_amount",
   CONFIRMING_SALE |-> "confirming_sale"]

\* `data: {}`: nothing chosen yet
NoData == [crypto |-> "", network |-> "", amount |-> 0]

\* the user whose updates arrive
SellUser == "u1"

\* the store after getSession(userId), which adds a NONE session for a user
\* that has none; the session returned is getSession(...)[userId]
getSession(sessions, userId) ==
  IF userId \in DOMAIN sessions THEN sessions
  ELSE MapSet(sessions, userId, [state |-> SessionState.NONE, data |-> NoData])

\* { ...current, ...session }
setSession(sessions, userId, session) ==
  LET current == getSession(sessions, userId)[userId] IN
  MapSet(sessions, userId,
         [f \in DOMAIN current |-> IF f \in DOMAIN session THEN session[f] ELSE current[f]])

clearSession(sessions, userId) == [u \in DOMAIN sessions \ {userId} |-> sessions[u]]

\* data: { ...current.data, ...data }
updateSessionData(sessions, userId, data) ==
  LET current == getSession(sessions, userId)[userId] IN
  MapSet(sessions, userId,
         [current EXCEPT !.data =
            [f \in DOMAIN current.data |-> IF f \in DOMAIN data THEN data[f] ELSE current.data[f]]])

\* a handler call that is not running
IdleCall == [pc |-> "free", data |-> NoData]

\* the calls with a new one suspended at pc, holding the data it read
StartCall(calls, pc, data) ==
  LET i == CHOOSE k \in DOMAIN calls :
             calls[k].pc = "free" /\ \A j \in DOMAIN calls : calls[j].pc = "free" => k <= j
  IN [calls EXCEPT ![i] = [pc |-> pc, data |-> data]]

\* /sell of a user that is registered or not (the user lookup comes before the
\* only access to the session)
handleSell ==
  /\ app.steps < MaxSteps
  /\ \E registered \in BOOLEAN :
       app' = [app EXCEPT !.steps = @ + 1,
                          !.sessions =
                            IF registered
                              THEN setSession(@, SellUser,
                                     [state |-> SessionState.SELECTING_CRYPTO, data |-> NoData])
                            ELSE @]
  /\ UNCHANGED <<tx, cfg, wh, poll, sent, adminOps, delivered>>

\* the callback crypto_<crypto>: test and writes run without an await between
handleCryptoSelection(Cryptos) ==
  /\ app.steps < MaxSteps
  /\ \E crypto \in Cryptos :
       LET sessions == getSession(app.sessions, SellUser) IN
       app' = [app EXCEPT !.steps = @ + 1,
                          !.sessions =
                            IF sessions[SellUser].state # SessionState.SELECTING_CRYPTO
                              THEN sessions
                            ELSE setSession(updateSessionData(sessions, SellUser, [crypto |-> crypto]),
                                            SellUser, [state |-> SessionState.SELECTING_NETWORK])]
  /\ UNCHANGED <<tx, cfg, wh, poll, sent, adminOps, delivered>>

\* the callback network_<network>
handleNetworkSelection(Networks) ==
  /\ app.steps < MaxSteps
  /\ \E network \in Networks :
       LET sessions == getSession(app.sessions, SellUser) IN
       app' = [app EXCEPT !.steps = @ + 1,
                          !.sessions =
                            IF sessions[SellUser].state # SessionState.SELECTING_NETWORK
                              THEN sessions
                            ELSE IF sessions[SellUser].data.crypto = ""
                              THEN clearSession(sessions, SellUser)
                            ELSE setSession(updateSessionData(sessions, SellUser, [network |-> network]),
                                            SellUser, [state |-> SessionState.ENTERING_AMOUNT])]
  /\ UNCHANGED <<tx, cfg, wh, poll, sent, adminOps, delivered>>

\* a text message handed to handleAmountEntry, up to its first await (the
\* gateway's coin table or the rate); amount 0 stands for a text that parses
\* to NaN or to a number that is not positive
handleAmountEntry(Amounts) ==
  /\ app.steps < MaxSteps
  /\ \E i \in DOMAIN app.calls : app.calls[i].pc = "free"
  /\ \E amount \in Amounts :
       LET sessions == getSession(app.sessions, SellUser)
           session == sessions[SellUser]
       IN app' =
            IF session.state # SessionState.ENTERING_AMOUNT
              THEN [app EXCEPT !.steps = @ + 1, !.sessions = sessions]
            ELSE IF session.data.crypto = "" \/ session.data.network = ""
              THEN [app EXCEPT !.steps = @ + 1, !.sessions = clearSession(sessions, SellUser)]
            ELSE IF amount <= 0
              THEN [app EXCEPT !.steps = @ + 1, !.sessions = sessions]
            ELSE [app EXCEPT !.steps = @ + 1, !.sessions = sessions,
                             !.calls = StartCall(@, "rate", [session.data EXCEPT !.amount = amount])]
  /\ UNCHANGED <<tx, cfg, wh, poll, sent, adminOps, delivered>>

\* handleAmountEntry after getCryptoRate: the amount is within the minimum and
\* the deposit limits or not; within, it is stored and the session set to
\* CONFIRMING_SALE
AmountPriced ==
  /\ \E i \in DOMAIN app.calls :
       /\ app.calls[i].pc = "rate"
       /\ \E within \in BOOLEAN :
            app' = [app EXCEPT
                      !.calls[i] = IdleCall,
                      !.passes = IF within THEN @ + 1 ELSE @,
                      !.sessions =
                        IF within
                          THEN setSession(updateSessionData(@, SellUser,
                                                            [amount |-> app.calls[i].data.amount]),
                                          SellUser, [state |-> SessionState.CONFIRMING_SALE])
                        ELSE @]
  /\ UNCHANGED <<tx, cfg, wh, poll, sent, adminOps, delivered>>

\* the callback confirm_new up to the user lookup: the call keeps the session
\* it read
handleConfirmSale ==
  /\ app.steps < MaxSteps
  /\ \E i \in DOMAIN app.calls : app.calls[i].pc = "free"
  /\ LET sessions == getSession(app.sessions, SellUser)
         session == sessions[SellUser]
     IN app' =
          IF session.state # SessionState.CONFIRMING_SALE
            THEN [app EXCEPT !.steps = @ + 1, !.sessions = sessions]
          ELSE [app EXCEPT !.steps = @ + 1, !.sessions = sessions,
                           !.calls = StartCall(@, "user", session.data)]
  /\ UNCHANGED <<tx, cfg, wh, poll, sent, adminOps, delivered>>

\* handleConfirmSale from the user lookup to the end of
\* transactionService.create: incomplete data clear the session; the wallet or
\* the insert can throw, which the catch only reports
ConfirmCreate ==
  \E i \in DOMAIN app.calls :
    /\ app.calls[i].pc = "user"
    /\ LET data == app.calls[i].data IN
       IF data.crypto = "" \/ data.network = "" \/ data.amount = 0
         THEN /\ app' = [app EXCEPT !.calls[i] = IdleCall,
                                    !.sessions = clearSession(@, SellUser)]
              /\ tx' = tx
       ELSE \E ok \in BOOLEAN :
              IF ok
                THEN /\ tx' = MapSet(tx, Cardinality(DOMAIN tx) + 1,
                                     NewTx(Cardinality(DOMAIN tx) + 1, "", data.amount))
                     /\ app' = [app EXCEPT !.calls[i].pc = "created"]
              ELSE /\ tx' = tx
                   /\ app' = [app EXCEPT !.calls[i] = IdleCall]
    /\ UNCHANGED <<cfg, wh, poll, sent, adminOps, delivered>>

\* handleConfirmSale after create resolved: clearSession, then the replies
ConfirmClear ==
  /\ \E i \in DOMAIN app.calls :
       /\ app.calls[i].pc = "created"
       /\ app' = [app EXCEPT !.calls[i] = IdleCall,
                             !.sessions = clearSession(@, SellUser)]
  /\ UNCHANGED <<tx, cfg, wh, poll, sent, adminOps, delivered>>

\* the callback cancel
handleCancelSale ==
  /\ app.steps < MaxSteps
  /\ app' = [app EXCEPT !.steps = @ + 1, !.sessions = clearSession(@, SellUser)]
  /\ UNCHANGED <<tx, cfg, wh, poll, sent, adminOps, delivered>>

\* Sell: one user's updates arrive in any order, a later one while an earlier
\* one is suspended at an await
InitSell ==
  /\ tx = <<>> /\ sent = <<>> /\ wh = <<>> /\ delivered = <<>>
  /\ cfg = [secret |-> "", enabled |-> TRUE, adminChatId |-> "7"]
  /\ poll = IdlePoll
  /\ adminOps = 0
  /\ app = [IdleApp EXCEPT !.calls = [i \in 1..MaxCalls |-> IdleCall]]

NextSell ==
  \/ handleSell
  \/ handleCryptoSelection({"BTC"})
  \/ handleNetworkSelection({"mainnet"})
  \/ handleAmountEntry({0, 1})
  \/ AmountPriced
  \/ handleConfirmSale
  \/ ConfirmCreate
  \/ ConfirmClear
  \/ handleCancelSale

SpecSell == InitSell /\ [][NextSell]_vars

\* the state of the user's session as getSession returns it
StateOf(a) == getSession(a.sessions, SellUser)[SellUser].state

\* C36: a transaction is created only while the user's session is in
\* CONFIRMING_SALE, and the session enters SELECTING_NETWORK only from
\* SELECTING_CRYPTO, ENTERING_AMOUNT only from SELECTING_NETWORK and
\* CONFIRMING_SALE only from ENTERING_AMOUNT, so that the steps since the last
\* /sell came in the order of the flow.
C36_SellOrder ==
  [][/\ tx' # tx => StateOf(app) = SessionState.CONFIRMING_SALE
     /\ StateOf(app') # StateOf(app) =>
          /\ StateOf(app') = SessionState.SELECTING_NETWORK =>
               StateOf(app) = SessionState.SELECTING_CRYPTO
          /\ StateOf(app') = SessionState.ENTERING_AMOUNT =>
               StateOf(app) = SessionState.SELECTING_NETWORK
          /\ StateOf(app') = SessionState.CONFIRMING_SALE =>
               StateOf(app) = SessionState.ENTERING_AMOUNT]_vars

\* C37: the transactions created are at most as many as the times the session
\* was set to CONFIRMING_SALE.
C37_OneSalePerPass == Cardinality(DOMAIN tx) <= app.passes

\* ---------------------------------------------------------- authorisation
\* `String(telegramId) === config.telegram.adminChatId`; "" is an id that is
\* missing
isAdmin(telegramId) == telegramId # "" /\ telegramId = cfg.adminChatId

\* an admin request arrives: a callback tx_... of the bot, whose ctx.from.id
\* Telegram sets to the sender's id, or a request to /api/admin/ with the
\* x-init-data header the sender wrote (its user.id any id, or none)
Arrive(Callers) ==
  /\ \E via \in {"bot", "api"}, caller \in Callers, header \in Callers \cup {""} :
       app' = [app EXCEPT !.request =
                 [via |-> via, caller |-> caller,
                  from |-> IF via = "bot" THEN caller ELSE header]]
  /\ UNCHANGED <<tx, cfg, wh, poll, sent, adminOps, delivered>>

\* handleCallback, case 'tx', after answerCbQuery: a sender that is not the
\* admin gets 'Unauthorized'; paid, process and cancel go to the handlers,
\* which test isAdmin again
handleCallbackTx ==
  /\ app.request.via = "bot"
  /\ isAdmin(app.request.from)
  /\ \/ handleMarkAsPaid
     \/ handleMarkProcessing
     \/ handleCancelTransaction

\* /api/admin/: 403 unless the id in x-init-data is adminChatId; then POST
\* .../approve and POST .../cancel
adminApi ==
  /\ app.request.via = "api"
  /\ ~(app.request.from = "" \/ app.request.from # cfg.adminChatId)
  /\ \/ handleMarkAsPaid
     \/ handleCancelTransaction

\* Authorisation: admin requests of the admin ("7") and of another user, with
\* ADMIN_CHAT_ID set or left empty
InitAuth ==
  /\ tx = OneTx
  /\ cfg \in [secret : {""}, enabled : {TRUE}, adminChatId : {"", "7"}]
  /\ wh = <<>> /\ delivered = <<>>
  /\ poll = IdlePoll
  /\ sent = [id \in DOMAIN OneTx |-> [k \in NotificationKinds |-> 0]]
  /\ adminOps = 0
  /\ app = IdleApp

NextAuth ==
  \/ Arrive({"7", "8"})
  \/ handleCallbackTx
  \/ adminApi

SpecAuth == InitAuth /\ [][NextAuth]_vars

\* C38: a step that changes a transaction or sends a user notification
\* serves a request whose sender's Telegram id is the configured adminChatId.
C38_AdminOnly ==
  [][(tx' # tx \/ sent' # sent) => app.request.caller = cfg.adminChatId]_vars

\* ------------------------------------------------------ database connection
\* the largest maxRetries and retryDelayMs connectWithRetry is called with
MaxRetries == 5
MaxDelay == 3

\* the test giving up one failure early
ExhaustedAtLimit(attempt, maxRetries) == attempt >= maxRetries

\* `attempt > maxRetries`
Exhausted(attempt, maxRetries) == attempt > maxRetries

\* one pass of the loop to its return, its throw or its timer:
\* prisma.$connect() resolves or rejects
connect ==
  /\ app.db.pc = "connect"
  /\ \E ok \in BOOLEAN :
       LET d == app.db
           attempt == d.attempt + 1
       IN app' = [app EXCEPT !.db =
                    IF ok
                      THEN [d EXCEPT !.pc = "returned", !.connects = @ + 1]
                    ELSE IF Exhausted(attempt, d.maxRetries)
                      THEN [d EXCEPT !.pc = "thrown", !.connects = @ + 1, !.attempt = attempt]
                    ELSE [d EXCEPT !.pc = "wait", !.connects = @ + 1, !.attempt = attempt,
                                   !.waits = Append(@, d.retryDelayMs * 2^(attempt - 1))]]
  /\ UNCHANGED <<tx, cfg, wh, poll, sent, adminOps, delivered>>

\* the timer of the delay fires and the loop goes round
Resume ==
  /\ app.db.pc = "wait"
  /\ app' = [app EXCEPT !.db.pc = "connect"]
  /\ UNCHANGED <<tx, cfg, wh, poll, sent, adminOps, delivered>>

\* Retry: connectWithRetry(maxRetries, retryDelayMs) is called with any
\* number of retries from 0 and any delay, and every $connect can fail
InitRetry ==
  /\ tx = <<>> /\ sent = <<>> /\ wh = <<>> /\ delivered = <<>>
  /\ cfg = [secret |-> "", enabled |-> TRUE, adminChatId |-> "7"]
  /\ poll = IdlePoll
  /\ adminOps = 0
  /\ \E m \in 0..MaxRetries, r \in 1..MaxDelay :
       app = [IdleApp EXCEPT !.db.pc = "connect", !.db.maxRetries = m, !.db.retryDelayMs = r]

NextRetry ==
  \/ connect
  \/ Resume

\* every $connect settles and every timer fires (weak fairness)
FairRetry == InitRetry /\ [][NextRetry]_vars /\ WF_vars(connect) /\ WF_vars(Resume)

\* C39: connectWithRetry calls $connect at most maxRetries + 1 times; it has
\* returned exactly when the last call succeeded, all calls before having
\* failed; it has thrown exactly when maxRetries + 1 calls failed; after the
\* k-th failure that is not the last it waits retryDelayMs * 2^(k-1); and it
\* returns or throws in the end.
C39_BoundedRetry ==
  /\ [](LET d == app.db IN
          /\ d.connects <= d.maxRetries + 1
          /\ d.pc = "returned" => d.connects = d.attempt + 1
          /\ d.pc # "returned" => d.connects = d.attempt
          /\ d.pc = "thrown" <=> d.attempt = d.maxRetries + 1
          /\ Len(d.waits) = IF d.pc = "thrown" THEN d.attempt - 1 ELSE d.attempt
          /\ \A k \in DOMAIN d.waits : d.waits[k] = d.retryDelayMs * 2^(k - 1))
  /\ <>(app.db.pc \in {"returned", "thrown"})

\* C39 witness: with two retries and a delay of 3, three calls have failed
\* after waits of 3 and 6, and the error is thrown
C39_Witness ==
  /\ app.db.pc = "thrown" /\ app.db.maxRetries = 2 /\ app.db.retryDelayMs = 3
  /\ app.db.connects = 3 /\ app.db.waits = <<3, 6>>

====
